---- MODULE Spec2Model ----
(***************************************************************************)
(* Model of rentlytics-scan: the check-out / check-in flow of the scanner  *)
(* page and the Vehicles page against the hosted database, and the vehicle *)
(* recommendation component (rule-based scorer with LLM attempt).          *)
(***************************************************************************)
EXTENDS Integers, Sequences, FiniteSets, TLC

(***************************************************************************)
(* Part 1: rentals, vehicles and the pages that write them                 *)
(***************************************************************************)

VARIABLES
    rentals,             \* public.rentals: sequence of rows, row id = index
    is_rented,           \* public.vehicles.is_rented, per vehicle id
    pc,                  \* per client: the await the running handler is at
    op,                  \* per client: the handler last started
    qrCode,              \* scanner page state qrCode
    vehicle,             \* scanner page state vehicle (its id) or Null
    rental,              \* scanner page state rental (its id) or Null
    scanLoading,         \* scanner page state loading
    scanError,           \* the vehicles query of the handleScan just run returned an error
    showCheckoutDialog,  \* scanner page state showCheckoutDialog
    assignedUserId,      \* argument of the running proceedCheckout
    rentTarget,          \* argument of the running handleRentVehicle
    localRentals,        \* Vehicles page state rentals (keys of the map)
    toasts,              \* titles of the toasts the current handler showed
    failed,              \* a guard read, insert or update of the handler returned an error
    everFailed,          \* some handler so far had such an error
    wrote,               \* the handler changed a persisted row
    overlapped,          \* another client's handler was in flight during the handler
    activeAtStart,       \* the target vehicle had an active rental when the handler started
    userRequirements,    \* VehicleRecommendation state userRequirements
    availableVehicles,   \* VehicleRecommendation prop availableVehicles (ids, in order)
    HUGGING_FACE_API_KEY,\* import.meta.env.VITE_HUGGING_FACE_API_KEY || ''
    recommendations,     \* VehicleRecommendation state recommendations
    isLoading,           \* VehicleRecommendation state isLoading
    recPc,               \* the await analyzeRequirements is at
    recToasts,           \* titles of the toasts analyzeRequirements showed
    fetchCount,          \* number of requests sent to the inference endpoint
    llmResult,           \* what the inference endpoint answered
    now,                 \* now() of the database, in hours
    query,               \* the anomaly RPC called last, and its argument
    queryResult,         \* the rows that RPC returned, in order
    user,                \* AuthProvider state user (its id) or Null
    profile,             \* AuthProvider state profile (the user_id of the row) or Null
    loading,             \* AuthProvider state loading
    profileFetches,      \* users whose profiles query is in flight
    getSessionPending,   \* supabase.auth.getSession() has not settled
    safetyTimerPending,  \* the 3 s safety timer has not fired
    location             \* the router's location

rentalVars == <<rentals, is_rented, pc, op, qrCode, vehicle, rental, scanLoading,
                scanError,
                showCheckoutDialog, assignedUserId, rentTarget, localRentals,
                toasts, failed, everFailed, wrote, overlapped, activeAtStart>>

recVars == <<userRequirements, availableVehicles, HUGGING_FACE_API_KEY, recommendations,
             isLoading, recPc, recToasts, fetchCount, llmResult>>

anomalyVars == <<now, query, queryResult>>

authVars == <<user, profile, loading, profileFetches, getSessionPending,
              safetyTimerPending, location>>

Null == "null"
EmptyId == ""
\* rental ids are 1..Len(rentals): no row, and the id '' of the locally built newRental
NoRental == 0
BlankRentalId == -1

MaxRentals == 2

\* handleRentVehicle rents for 7 days; the scanner's dialog for one month, taken as 30 days
RentDays == 7
DaysPerMonth == 30

Dealers == {"d1", "d2"}
Renters == {"u1", "u2"}
RenterClients == {"u1"}
Clients == Dealers \cup RenterClients
Vehicles == {"v1", "v2"}
ScanInputs == Vehicles \cup {"v9"}

\* VehicleList.generateQRCode: the text 'Copy QR Code' puts on the clipboard
generateQRCode(vehicleId) == "vehicle:" \o vehicleId

\* what a dealer can type into the scanner page for vehicle v1: its bare identifier
\* or the copied payload
QRInputs == {"v1", generateQRCode("v1"), "v9"}

IsDealer(uid) == uid \in Dealers

RentalIds == DOMAIN rentals

\* rows of the table rs for vehicle v with check_in_date IS NULL
ActiveIn(rs, v) ==
    {i \in DOMAIN rs : rs[i].vehicle_id = v /\ rs[i].check_in_date = Null}

ActiveRentals(v) == ActiveIn(rentals, v)

\* row-level security, SELECT on rentals
CanSelectRental(uid, i) == rentals[i].user_id = uid \/ IsDealer(uid)

\* row-level security, INSERT on rentals
CanInsertRental(uid, row) == row.user_id = uid \/ IsDealer(uid)

\* row-level security, UPDATE on rentals
CanUpdateRental(uid, i) == IsDealer(uid)

\* row-level security, UPDATE on vehicles
CanUpdateVehicle(uid) == IsDealer(uid)

\* .maybeSingle(): no row is data null, one row is that row, more is an error
maybeSingle(rows) ==
    IF rows = {} THEN [data |-> NoRental, error |-> FALSE]
    ELSE IF Cardinality(rows) = 1
         THEN [data |-> CHOOSE i \in rows : TRUE, error |-> FALSE]
         ELSE [data |-> NoRental, error |-> TRUE]

\* from('rentals').select().eq('vehicle_id', v).is('check_in_date', null).maybeSingle()
selectActiveRental(uid, v, ok) ==
    IF ok THEN maybeSingle({i \in ActiveRentals(v) : CanSelectRental(uid, i)})
    ELSE [data |-> NoRental, error |-> TRUE]

\* from('rentals').insert(row)
insertRental(uid, row) ==
    Append(rentals, [user_id |-> row.user_id, vehicle_id |-> row.vehicle_id,
                     check_in_date |-> Null,
                     check_out_date |-> now,
                     expected_return_date |-> row.expected_return_date,
                     idle_time |-> 0, working_time |-> 0, fuel_usage |-> 0,
                     downtime |-> 0])

\* from('rentals').update({check_in_date: now}).eq('id', id)
updateRentalCheckIn(uid, id) ==
    [i \in RentalIds |->
        IF i = id /\ CanUpdateRental(uid, i)
        THEN [rentals[i] EXCEPT !.check_in_date = "now"]
        ELSE rentals[i]]

\* from('vehicles').update({is_rented: b}).eq('id', v)
updateVehicleRented(uid, v, b) ==
    IF CanUpdateVehicle(uid) THEN [is_rented EXCEPT ![v] = b] ELSE is_rented

Busy(c) == pc[c] \notin {"idle", "done"}

InFlight == Cardinality({c \in Clients : pc[c] \in {"pc_guard", "pc_insert", "rv_guard", "rv_insert"}})

\* history: client c takes a step; every handler in flight next to another one overlaps it
MarkOverlap(c) ==
    overlapped' = [k \in Clients |->
        IF k = c THEN overlapped[k] \/ (\E o \in Clients \ {c} : Busy(o))
        ELSE overlapped[k] \/ Busy(k)]

\* history: client c starts a handler on target vehicle v
Begin(c, kind, v) ==
    /\ op' = [op EXCEPT ![c] = kind]
    /\ activeAtStart' = [activeAtStart EXCEPT ![c] = v # Null /\ ActiveRentals(v) # {}]
    /\ MarkOverlap(c)

\* the pages before any handler has run
InitPages ==
    /\ pc = [c \in Clients |-> "idle"]
    /\ op = [c \in Clients |-> "none"]
    /\ qrCode = [c \in Dealers |-> EmptyId]
    /\ vehicle = [c \in Dealers |-> Null]
    /\ rental = [c \in Dealers |-> NoRental]
    /\ scanLoading = [c \in Dealers |-> FALSE]
    /\ scanError = [c \in Dealers |-> FALSE]
    /\ showCheckoutDialog = [c \in Dealers |-> FALSE]
    /\ assignedUserId = [c \in Dealers |-> EmptyId]
    /\ rentTarget = [c \in RenterClients |-> Null]
    /\ localRentals = [c \in RenterClients |-> {}]
    /\ toasts = [c \in Clients |-> {}]
    /\ failed = [c \in Clients |-> FALSE]
    /\ everFailed = FALSE
    /\ wrote = [c \in Clients |-> FALSE]
    /\ overlapped = [c \in Clients |-> FALSE]
    /\ activeAtStart = [c \in Clients |-> FALSE]

InitRentals ==
    /\ rentals = <<>>
    /\ is_rented = [v \in Vehicles |-> FALSE]
    /\ InitPages

(***************************************************************************)
(* Scanner page (pages/QRScanner.tsx), rendered for dealers only           *)
(***************************************************************************)

\* handleScan(id): entry, up to the first await
handleScan(c, id) ==
    /\ pc[c] = "idle"
    /\ ~showCheckoutDialog[c]
    /\ qrCode' = [qrCode EXCEPT ![c] = id]
    /\ pc' = [pc EXCEPT ![c] = "hs_vehicle"]
    /\ Begin(c, "scan", Null)
    /\ UNCHANGED <<rentals, is_rented, vehicle, rental, showCheckoutDialog,
                   assignedUserId, rentTarget, localRentals, toasts, failed, wrote>>
    /\ scanLoading' = [scanLoading EXCEPT ![c] = TRUE]
    /\ UNCHANGED <<everFailed, scanError, recVars, anomalyVars, authVars>>

\* a faulty variant of handleScan_vehicle: the rental shown before stays on the page
handleScan_vehicle_keepRental(c) ==
    /\ pc[c] = "hs_vehicle"
    /\ \E ok \in BOOLEAN :
        /\ scanError' = [scanError EXCEPT ![c] = ~ok]
        /\ IF ~ok \/ qrCode[c] \notin Vehicles
           THEN /\ toasts' = [toasts EXCEPT ![c] = @ \cup {"Vehicle not found"}]
                /\ vehicle' = [vehicle EXCEPT ![c] = Null]
                /\ UNCHANGED rental
                /\ scanLoading' = [scanLoading EXCEPT ![c] = FALSE]
                /\ pc' = [pc EXCEPT ![c] = "done"]
           ELSE /\ vehicle' = [vehicle EXCEPT ![c] = qrCode[c]]
                /\ pc' = [pc EXCEPT ![c] = "hs_rental"]
                /\ UNCHANGED <<toasts, rental, scanLoading>>
    /\ MarkOverlap(c)
    /\ UNCHANGED <<rentals, is_rented, op, qrCode, showCheckoutDialog, assignedUserId,
                   rentTarget, localRentals, failed, wrote, activeAtStart>>
    /\ UNCHANGED <<everFailed, recVars, anomalyVars, authVars>>

\* handleScan: the vehicles query returns
handleScan_vehicle(c) ==
    /\ pc[c] = "hs_vehicle"
    /\ \E ok \in BOOLEAN :
        /\ scanError' = [scanError EXCEPT ![c] = ~ok]
        /\ IF ~ok \/ qrCode[c] \notin Vehicles
           THEN /\ toasts' = [toasts EXCEPT ![c] = @ \cup {"Vehicle not found"}]
                /\ vehicle' = [vehicle EXCEPT ![c] = Null]
                /\ rental' = [rental EXCEPT ![c] = NoRental]
                /\ scanLoading' = [scanLoading EXCEPT ![c] = FALSE]
                /\ pc' = [pc EXCEPT ![c] = "done"]
           ELSE /\ vehicle' = [vehicle EXCEPT ![c] = qrCode[c]]
                /\ pc' = [pc EXCEPT ![c] = "hs_rental"]
                /\ UNCHANGED <<toasts, rental, scanLoading>>
    /\ MarkOverlap(c)
    /\ UNCHANGED <<rentals, is_rented, op, qrCode, showCheckoutDialog, assignedUserId,
                   rentTarget, localRentals, failed, wrote, activeAtStart>>
    /\ UNCHANGED <<everFailed, recVars, anomalyVars, authVars>>

\* handleScan: the active-rental query returns
handleScan_rental(c) ==
    /\ pc[c] = "hs_rental"
    /\ \E ok \in BOOLEAN :
        rental' = [rental EXCEPT ![c] = selectActiveRental(c, vehicle[c], ok).data]
    /\ pc' = [pc EXCEPT ![c] = "done"]
    /\ MarkOverlap(c)
    /\ UNCHANGED <<rentals, is_rented, op, qrCode, vehicle, showCheckoutDialog,
                   assignedUserId, rentTarget, localRentals, toasts, failed, wrote,
                   activeAtStart>>
    /\ scanLoading' = [scanLoading EXCEPT ![c] = FALSE]
    /\ UNCHANGED <<everFailed, scanError, recVars, anomalyVars, authVars>>

\* handleCheckOut, dealer branch: fetch the users, open the dialog
handleCheckOut(c) ==
    /\ pc[c] = "idle"
    /\ vehicle[c] # Null
    /\ rental[c] = NoRental
    /\ ~showCheckoutDialog[c]
    /\ \E ok \in BOOLEAN :
        IF ok
        THEN /\ showCheckoutDialog' = [showCheckoutDialog EXCEPT ![c] = TRUE]
             /\ UNCHANGED <<toasts, pc, op>>
        ELSE /\ toasts' = [toasts EXCEPT ![c] = {"Error"}]
             /\ pc' = [pc EXCEPT ![c] = "done"]
             /\ op' = [op EXCEPT ![c] = "dialog"]
             /\ UNCHANGED showCheckoutDialog
    /\ UNCHANGED <<rentals, is_rented, qrCode, vehicle, rental, assignedUserId,
                   rentTarget, localRentals, failed, wrote, overlapped, activeAtStart>>
    /\ UNCHANGED <<scanLoading, everFailed, scanError, recVars, anomalyVars, authVars>>

\* the dialog's Cancel button
cancelCheckoutDialog(c) ==
    /\ pc[c] = "idle"
    /\ showCheckoutDialog[c]
    /\ showCheckoutDialog' = [showCheckoutDialog EXCEPT ![c] = FALSE]
    /\ UNCHANGED <<rentals, is_rented, pc, op, qrCode, vehicle, rental, assignedUserId,
                   rentTarget, localRentals, toasts, failed, wrote, overlapped,
                   activeAtStart>>
    /\ UNCHANGED <<scanLoading, everFailed, scanError, recVars, anomalyVars, authVars>>

\* confirmDealerCheckout, then proceedCheckout up to its first await
confirmDealerCheckout(c, selectedUser) ==
    /\ pc[c] = "idle"
    /\ showCheckoutDialog[c]
    /\ vehicle[c] # Null
    /\ Len(rentals) + InFlight < MaxRentals
    /\ IF selectedUser = EmptyId
       THEN /\ toasts' = [toasts EXCEPT ![c] = {"Missing info"}]
            /\ pc' = [pc EXCEPT ![c] = "done"]
            /\ op' = [op EXCEPT ![c] = "dialog"]
            /\ UNCHANGED <<assignedUserId, overlapped, activeAtStart>>
       ELSE /\ pc' = [pc EXCEPT ![c] = "pc_guard"]
            /\ assignedUserId' = [assignedUserId EXCEPT ![c] = selectedUser]
            /\ Begin(c, "checkout", vehicle[c])
            /\ UNCHANGED toasts
    /\ UNCHANGED <<rentals, is_rented, qrCode, vehicle, rental, showCheckoutDialog,
                   rentTarget, localRentals, failed, wrote>>
    /\ UNCHANGED <<scanLoading, everFailed, scanError, recVars, anomalyVars, authVars>>

\* proceedCheckout: the guard read returns
proceedCheckout_guard(c) ==
    /\ pc[c] = "pc_guard"
    /\ \E ok \in BOOLEAN :
        LET res == selectActiveRental(c, vehicle[c], ok) IN
        /\ failed' = [failed EXCEPT ![c] = @ \/ res.error]
        /\ IF res.data # NoRental
           THEN /\ toasts' = [toasts EXCEPT ![c] = @ \cup {"Already rented"}]
                /\ scanLoading' = [scanLoading EXCEPT ![c] = TRUE]
                /\ pc' = [pc EXCEPT ![c] = "hs_vehicle"]
           ELSE /\ pc' = [pc EXCEPT ![c] = "pc_insert"]
                /\ UNCHANGED <<toasts, scanLoading>>
    /\ MarkOverlap(c)
    /\ UNCHANGED <<rentals, is_rented, op, qrCode, vehicle, rental, showCheckoutDialog,
                   assignedUserId, rentTarget, localRentals, wrote, activeAtStart>>
    /\ everFailed' = (everFailed \/ \E k \in Clients : failed'[k])
    /\ UNCHANGED <<scanError, recVars, anomalyVars, authVars>>

\* proceedCheckout: the rentals insert returns
proceedCheckout_insert(c) ==
    /\ pc[c] = "pc_insert"
    /\ \E ok \in BOOLEAN :
        LET row == [user_id |-> assignedUserId[c], vehicle_id |-> vehicle[c],
                    expected_return_date |-> now + DaysPerMonth * 24] IN
        IF ok /\ CanInsertRental(c, row)
        THEN /\ rentals' = insertRental(c, row)
             /\ wrote' = [wrote EXCEPT ![c] = TRUE]
             /\ pc' = [pc EXCEPT ![c] = "pc_vehicle"]
             /\ UNCHANGED <<toasts, failed>>
        ELSE /\ failed' = [failed EXCEPT ![c] = TRUE]
             /\ toasts' = [toasts EXCEPT ![c] = @ \cup {"Error"}]
             /\ pc' = [pc EXCEPT ![c] = "done"]
             /\ UNCHANGED <<rentals, wrote>>
    /\ MarkOverlap(c)
    /\ UNCHANGED <<is_rented, op, qrCode, vehicle, rental, showCheckoutDialog,
                   assignedUserId, rentTarget, localRentals, activeAtStart>>
    /\ everFailed' = (everFailed \/ \E k \in Clients : failed'[k])
    /\ UNCHANGED <<scanLoading, scanError, recVars, anomalyVars, authVars>>

\* proceedCheckout: the vehicles update returns; local state, toast, then handleScan()
proceedCheckout_vehicle(c) ==
    /\ pc[c] = "pc_vehicle"
    /\ \E ok \in BOOLEAN :
        IF ok
        THEN /\ is_rented' = updateVehicleRented(c, vehicle[c], TRUE)
             /\ UNCHANGED failed
        ELSE /\ failed' = [failed EXCEPT ![c] = TRUE]
             /\ UNCHANGED is_rented
    /\ rental' = [rental EXCEPT ![c] = BlankRentalId]
    /\ toasts' = [toasts EXCEPT ![c] = @ \cup {"Success"}]
    /\ showCheckoutDialog' = [showCheckoutDialog EXCEPT ![c] = FALSE]
    /\ pc' = [pc EXCEPT ![c] = "hs_vehicle"]
    /\ MarkOverlap(c)
    /\ UNCHANGED <<rentals, op, qrCode, vehicle, assignedUserId, rentTarget,
                   localRentals, wrote, activeAtStart>>
    /\ scanLoading' = [scanLoading EXCEPT ![c] = TRUE]
    /\ everFailed' = (everFailed \/ \E k \in Clients : failed'[k])
    /\ UNCHANGED <<scanError, recVars, anomalyVars, authVars>>

\* handleCheckIn: entry, up to the first await
handleCheckIn(c) ==
    /\ pc[c] = "idle"
    /\ ~showCheckoutDialog[c]
    /\ vehicle[c] # Null
    /\ rental[c] # NoRental
    /\ pc' = [pc EXCEPT ![c] = "ci_rental"]
    /\ Begin(c, "checkin", vehicle[c])
    /\ UNCHANGED <<rentals, is_rented, qrCode, vehicle, rental, showCheckoutDialog,
                   assignedUserId, rentTarget, localRentals, toasts, failed, wrote>>
    /\ UNCHANGED <<scanLoading, everFailed, scanError, recVars, anomalyVars, authVars>>

\* handleCheckIn: the rentals update returns
handleCheckIn_rental(c) ==
    /\ pc[c] = "ci_rental"
    /\ \E ok \in BOOLEAN :
        IF ok /\ rental[c] # BlankRentalId
        THEN /\ rentals' = updateRentalCheckIn(c, rental[c])
             /\ wrote' = [wrote EXCEPT ![c] = TRUE]
             /\ pc' = [pc EXCEPT ![c] = "ci_vehicle"]
             /\ UNCHANGED <<toasts, failed>>
        ELSE /\ failed' = [failed EXCEPT ![c] = TRUE]
             /\ toasts' = [toasts EXCEPT ![c] = @ \cup {"Error"}]
             /\ pc' = [pc EXCEPT ![c] = "done"]
             /\ UNCHANGED <<rentals, wrote>>
    /\ MarkOverlap(c)
    /\ UNCHANGED <<is_rented, op, qrCode, vehicle, rental, showCheckoutDialog,
                   assignedUserId, rentTarget, localRentals, activeAtStart>>
    /\ everFailed' = (everFailed \/ \E k \in Clients : failed'[k])
    /\ UNCHANGED <<scanLoading, scanError, recVars, anomalyVars, authVars>>

\* handleCheckIn: the vehicles update returns; local state, toast, then handleScan()
handleCheckIn_vehicle(c) ==
    /\ pc[c] = "ci_vehicle"
    /\ \E ok \in BOOLEAN :
        IF ok
        THEN /\ is_rented' = updateVehicleRented(c, vehicle[c], FALSE)
             /\ UNCHANGED failed
        ELSE /\ failed' = [failed EXCEPT ![c] = TRUE]
             /\ UNCHANGED is_rented
    /\ rental' = [rental EXCEPT ![c] = NoRental]
    /\ toasts' = [toasts EXCEPT ![c] = @ \cup {"Success"}]
    /\ pc' = [pc EXCEPT ![c] = "hs_vehicle"]
    /\ MarkOverlap(c)
    /\ UNCHANGED <<rentals, op, qrCode, vehicle, showCheckoutDialog, assignedUserId,
                   rentTarget, localRentals, wrote, activeAtStart>>
    /\ scanLoading' = [scanLoading EXCEPT ![c] = TRUE]
    /\ everFailed' = (everFailed \/ \E k \in Clients : failed'[k])
    /\ UNCHANGED <<scanError, recVars, anomalyVars, authVars>>

(***************************************************************************)
(* Vehicles page (pages/Vehicles.tsx), the section shown to non-dealers    *)
(***************************************************************************)

\* the keys of rentalsMap that fetchVehicles builds from the rows the caller may read
fetchedRentals(c) ==
    {v \in Vehicles : \E i \in ActiveRentals(v) : CanSelectRental(c, i)}

\* fetchVehicles, run on mount of the page
fetchVehicles(c) ==
    /\ pc[c] = "idle"
    /\ \E ok \in BOOLEAN :
        IF ok
        THEN /\ localRentals' = [localRentals EXCEPT ![c] = fetchedRentals(c)]
             /\ UNCHANGED <<toasts, pc, op>>
        ELSE /\ toasts' = [toasts EXCEPT ![c] = {"Error"}]
             /\ pc' = [pc EXCEPT ![c] = "done"]
             /\ op' = [op EXCEPT ![c] = "fetch"]
             /\ UNCHANGED localRentals
    /\ UNCHANGED <<rentals, is_rented, qrCode, vehicle, rental, showCheckoutDialog,
                   assignedUserId, rentTarget, failed, wrote, overlapped, activeAtStart>>
    /\ UNCHANGED <<scanLoading, everFailed, scanError, recVars, anomalyVars, authVars>>

\* handleRentVehicle(vehicleId): entry, up to the first await
handleRentVehicle(c, vehicleId) ==
    /\ pc[c] = "idle"
    /\ vehicleId \notin localRentals[c]
    /\ Len(rentals) + InFlight < MaxRentals
    /\ rentTarget' = [rentTarget EXCEPT ![c] = vehicleId]
    /\ pc' = [pc EXCEPT ![c] = "rv_guard"]
    /\ Begin(c, "rent", vehicleId)
    /\ UNCHANGED <<rentals, is_rented, qrCode, vehicle, rental, showCheckoutDialog,
                   assignedUserId, localRentals, toasts, failed, wrote>>
    /\ UNCHANGED <<scanLoading, everFailed, scanError, recVars, anomalyVars, authVars>>

\* handleRentVehicle: the guard read returns
handleRentVehicle_guard(c) ==
    /\ pc[c] = "rv_guard"
    /\ \E ok \in BOOLEAN :
        LET res == selectActiveRental(c, rentTarget[c], ok) IN
        IF res.error
        THEN /\ failed' = [failed EXCEPT ![c] = TRUE]
             /\ toasts' = [toasts EXCEPT ![c] = @ \cup {"Error"}]
             /\ pc' = [pc EXCEPT ![c] = "done"]
        ELSE IF res.data # NoRental
        THEN /\ toasts' = [toasts EXCEPT ![c] = @ \cup {"Already rented"}]
             /\ pc' = [pc EXCEPT ![c] = "rv_refetch"]
             /\ UNCHANGED failed
        ELSE /\ pc' = [pc EXCEPT ![c] = "rv_insert"]
             /\ UNCHANGED <<toasts, failed>>
    /\ MarkOverlap(c)
    /\ UNCHANGED <<rentals, is_rented, op, qrCode, vehicle, rental, showCheckoutDialog,
                   assignedUserId, rentTarget, localRentals, wrote, activeAtStart>>
    /\ everFailed' = (everFailed \/ \E k \in Clients : failed'[k])
    /\ UNCHANGED <<scanLoading, scanError, recVars, anomalyVars, authVars>>

\* handleRentVehicle: the rentals insert returns
handleRentVehicle_insert(c) ==
    /\ pc[c] = "rv_insert"
    /\ \E ok \in BOOLEAN :
        LET row == [user_id |-> c, vehicle_id |-> rentTarget[c],
                    expected_return_date |-> now + RentDays * 24] IN
        IF ok /\ CanInsertRental(c, row)
        THEN /\ rentals' = insertRental(c, row)
             /\ wrote' = [wrote EXCEPT ![c] = TRUE]
             /\ pc' = [pc EXCEPT ![c] = "rv_fetch"]
             /\ UNCHANGED <<toasts, failed>>
        ELSE /\ failed' = [failed EXCEPT ![c] = TRUE]
             /\ toasts' = [toasts EXCEPT ![c] = @ \cup {"Error"}]
             /\ pc' = [pc EXCEPT ![c] = "done"]
             /\ UNCHANGED <<rentals, wrote>>
    /\ MarkOverlap(c)
    /\ UNCHANGED <<is_rented, op, qrCode, vehicle, rental, showCheckoutDialog,
                   assignedUserId, rentTarget, localRentals, activeAtStart>>
    /\ everFailed' = (everFailed \/ \E k \in Clients : failed'[k])
    /\ UNCHANGED <<scanLoading, scanError, recVars, anomalyVars, authVars>>

\* handleRentVehicle: the fetchVehicles() after the insert returns, then the Success toast
handleRentVehicle_fetch(c) ==
    /\ pc[c] = "rv_fetch"
    /\ \E ok \in BOOLEAN :
        IF ok
        THEN /\ localRentals' = [localRentals EXCEPT ![c] = fetchedRentals(c)]
             /\ toasts' = [toasts EXCEPT ![c] = @ \cup {"Success"}]
        ELSE /\ toasts' = [toasts EXCEPT ![c] = @ \cup {"Error", "Success"}]
             /\ UNCHANGED localRentals
    /\ pc' = [pc EXCEPT ![c] = "done"]
    /\ MarkOverlap(c)
    /\ UNCHANGED <<rentals, is_rented, op, qrCode, vehicle, rental, showCheckoutDialog,
                   assignedUserId, rentTarget, failed, wrote, activeAtStart>>
    /\ UNCHANGED <<scanLoading, everFailed, scanError, recVars, anomalyVars, authVars>>

\* handleRentVehicle: the fetchVehicles() of the 'Already rented' branch returns
handleRentVehicle_refetch(c) ==
    /\ pc[c] = "rv_refetch"
    /\ \E ok \in BOOLEAN :
        IF ok
        THEN /\ localRentals' = [localRentals EXCEPT ![c] = fetchedRentals(c)]
             /\ UNCHANGED toasts
        ELSE /\ toasts' = [toasts EXCEPT ![c] = @ \cup {"Error"}]
             /\ UNCHANGED localRentals
    /\ pc' = [pc EXCEPT ![c] = "done"]
    /\ MarkOverlap(c)
    /\ UNCHANGED <<rentals, is_rented, op, qrCode, vehicle, rental, showCheckoutDialog,
                   assignedUserId, rentTarget, failed, wrote, activeAtStart>>
    /\ UNCHANGED <<scanLoading, everFailed, scanError, recVars, anomalyVars, authVars>>

\* the handler has returned and its toasts are dismissed: the page is ready for the next click
handlerReturns(c) ==
    /\ pc[c] = "done"
    /\ pc' = [pc EXCEPT ![c] = "idle"]
    /\ op' = [op EXCEPT ![c] = "none"]
    /\ toasts' = [toasts EXCEPT ![c] = {}]
    /\ failed' = [failed EXCEPT ![c] = FALSE]
    /\ wrote' = [wrote EXCEPT ![c] = FALSE]
    /\ overlapped' = [overlapped EXCEPT ![c] = FALSE]
    /\ activeAtStart' = [activeAtStart EXCEPT ![c] = FALSE]
    /\ assignedUserId' = [k \in Dealers |-> IF k = c THEN EmptyId ELSE assignedUserId[k]]
    /\ rentTarget' = [k \in RenterClients |-> IF k = c THEN Null ELSE rentTarget[k]]
    /\ UNCHANGED <<rentals, is_rented, qrCode, vehicle, rental, showCheckoutDialog,
                   localRentals>>
    /\ everFailed' = (everFailed \/ \E k \in Clients : failed'[k])
    /\ scanError' = [k \in Dealers |-> IF k = c THEN FALSE ELSE scanError[k]]
    /\ UNCHANGED <<scanLoading, recVars, anomalyVars, authVars>>

(***************************************************************************)
(* Part 2: VehicleRecommendation (components/VehicleRecommendation.tsx)    *)
(***************************************************************************)

\* JavaScript strings are sequences of characters; Str gives the literals of the
\* code and of the inputs as such sequences
Str ==
    "excavator" :> <<"e", "x", "c", "a", "v", "a", "t", "o", "r">>
   @@ "bulldozer" :> <<"b", "u", "l", "l", "d", "o", "z", "e", "r">>
   @@ "crane" :> <<"c", "r", "a", "n", "e">>
   @@ "truck" :> <<"t", "r", "u", "c", "k">>
   @@ "forklift" :> <<"f", "o", "r", "k", "l", "i", "f", "t">>
   @@ "heavy" :> <<"h", "e", "a", "v", "y">>
   @@ "large" :> <<"l", "a", "r", "g", "e">>
   @@ "small" :> <<"s", "m", "a", "l", "l">>
   @@ "light" :> <<"l", "i", "g", "h", "t">>
   @@ "site a" :> <<"s", "i", "t", "e", " ", "a">>
   @@ "site b" :> <<"s", "i", "t", "e", " ", "b">>
   @@ "site c" :> <<"s", "i", "t", "e", " ", "c">>
   @@ "electric" :> <<"e", "l", "e", "c", "t", "r", "i", "c">>
   @@ "diesel" :> <<"d", "i", "e", "s", "e", "l">>
   @@ "construction" :> <<"c", "o", "n", "s", "t", "r", "u", "c", "t", "i", "o", "n">>
   @@ "building" :> <<"b", "u", "i", "l", "d", "i", "n", "g">>
   @@ "warehouse" :> <<"w", "a", "r", "e", "h", "o", "u", "s", "e">>
   @@ "storage" :> <<"s", "t", "o", "r", "a", "g", "e">>
   @@ "transport" :> <<"t", "r", "a", "n", "s", "p", "o", "r", "t">>
   @@ "hauling" :> <<"h", "a", "u", "l", "i", "n", "g">>
   @@ "Heavy" :> <<"H", "e", "a", "v", "y">>
   @@ "Site" :> <<"S", "i", "t", "e">>
   @@ "A" :> <<"A">>
   @@ "lightweight" :> <<"l", "i", "g", "h", "t", "w", "e", "i", "g", "h", "t">>
   @@ "need" :> <<"n", "e", "e", "d">>
   @@ "" :> <<>>
   @@ "I need a heavy excavator at Site A" :> <<"I", " ", "n", "e", "e", "d", " ", "a", " ", "h", "e", "a", "v", "y", " ", "e", "x", "c", "a", "v", "a", "t", "o", "r", " ", "a", "t", " ", "S", "i", "t", "e", " ", "A">>
   @@ "I need a heavy excavator for construction at Site A" :> <<"I", " ", "n", "e", "e", "d", " ", "a", " ", "h", "e", "a", "v", "y", " ", "e", "x", "c", "a", "v", "a", "t", "o", "r", " ", "f", "o", "r", " ", "c", "o", "n", "s", "t", "r", "u", "c", "t", "i", "o", "n", " ", "a", "t", " ", "S", "i", "t", "e", " ", "A">>
   @@ "Looking for electric forklift for warehouse operations" :> <<"L", "o", "o", "k", "i", "n", "g", " ", "f", "o", "r", " ", "e", "l", "e", "c", "t", "r", "i", "c", " ", "f", "o", "r", "k", "l", "i", "f", "t", " ", "f", "o", "r", " ", "w", "a", "r", "e", "h", "o", "u", "s", "e", " ", "o", "p", "e", "r", "a", "t", "i", "o", "n", "s">>
   @@ "Need truck for hauling materials" :> <<"N", "e", "e", "d", " ", "t", "r", "u", "c", "k", " ", "f", "o", "r", " ", "h", "a", "u", "l", "i", "n", "g", " ", "m", "a", "t", "e", "r", "i", "a", "l", "s">>
   @@ "small diesel bulldozer for building transport and storage at site b" :> <<"s", "m", "a", "l", "l", " ", "d", "i", "e", "s", "e", "l", " ", "b", "u", "l", "l", "d", "o", "z", "e", "r", " ", "f", "o", "r", " ", "b", "u", "i", "l", "d", "i", "n", "g", " ", "t", "r", "a", "n", "s", "p", "o", "r", "t", " ", "a", "n", "d", " ", "s", "t", "o", "r", "a", "g", "e", " ", "a", "t", " ", "s", "i", "t", "e", " ", "b">>
   @@ "large crane at SITE C" :> <<"l", "a", "r", "g", "e", " ", "c", "r", "a", "n", "e", " ", "a", "t", " ", "S", "I", "T", "E", " ", "C">>
   @@ "   " :> <<" ", " ", " ">>
   @@ "35 ton" :> <<"3", "5", " ", "t", "o", "n">>
   @@ "20 ton" :> <<"2", "0", " ", "t", "o", "n">>
   @@ "30 ton" :> <<"3", "0", " ", "t", "o", "n">>
   @@ "18 ton" :> <<"1", "8", " ", "t", "o", "n">>
   @@ "2 ton" :> <<"2", " ", "t", "o", "n">>
   @@ "ton" :> <<"t", "o", "n">>
   @@ "Site A" :> <<"S", "i", "t", "e", " ", "A">>
   @@ "Site B" :> <<"S", "i", "t", "e", " ", "B">>
   @@ "Site C" :> <<"S", "i", "t", "e", " ", "C">>

Digits == {"0", "1", "2", "3", "4", "5", "6", "7", "8", "9"}

DigitValue ==
    "0" :> 0 @@ "1" :> 1 @@ "2" :> 2 @@ "3" :> 3 @@ "4" :> 4 @@
    "5" :> 5 @@ "6" :> 6 @@ "7" :> 7 @@ "8" :> 8 @@ "9" :> 9

UpperToLower ==
    "A" :> "a" @@ "B" :> "b" @@ "C" :> "c" @@ "D" :> "d" @@ "E" :> "e" @@
    "F" :> "f" @@ "G" :> "g" @@ "H" :> "h" @@ "I" :> "i" @@ "J" :> "j" @@
    "K" :> "k" @@ "L" :> "l" @@ "M" :> "m" @@ "N" :> "n" @@ "O" :> "o" @@
    "P" :> "p" @@ "Q" :> "q" @@ "R" :> "r" @@ "S" :> "s" @@ "T" :> "t" @@
    "U" :> "u" @@ "V" :> "v" @@ "W" :> "w" @@ "X" :> "x" @@ "Y" :> "y" @@
    "Z" :> "z"

\* String.prototype.toLowerCase
toLowerCase(s) ==
    [i \in 1..Len(s) |-> IF s[i] \in DOMAIN UpperToLower THEN UpperToLower[s[i]] ELSE s[i]]

\* String.prototype.includes
includes(s, sub) ==
    \E i \in 0..(Len(s) - Len(sub)) : SubSeq(s, i + 1, i + Len(sub)) = sub

\* String.prototype.trim
RECURSIVE trim(_)
trim(s) ==
    IF s = <<>> THEN s
    ELSE IF Head(s) = " " THEN trim(Tail(s))
    ELSE IF s[Len(s)] = " " THEN trim(SubSeq(s, 1, Len(s) - 1))
    ELSE s

\* a JavaScript number: NaN, or the integer n
NaN == [isNaN |-> TRUE, n |-> 0]
Number(k) == [isNaN |-> FALSE, n |-> k]

\* the value of the longest prefix of digits of s, after acc
RECURSIVE digitsValue(_, _)
digitsValue(s, acc) ==
    IF s # <<>> /\ Head(s) \in Digits
    THEN digitsValue(Tail(s), 10 * acc + DigitValue[Head(s)])
    ELSE acc

\* parseInt(string): leading blanks, an optional sign, then the leading digits; NaN without digits
RECURSIVE parseInt(_)
parseInt(s) ==
    IF s = <<>> THEN NaN
    ELSE IF Head(s) = " " THEN parseInt(Tail(s))
    ELSE IF Head(s) \in {"-", "+"}
         THEN IF Len(s) > 1 /\ s[2] \in Digits
              THEN Number((IF Head(s) = "-" THEN -1 ELSE 1) * digitsValue(Tail(s), 0))
              ELSE NaN
    ELSE IF Head(s) \in Digits THEN Number(digitsValue(s, 0))
    ELSE NaN

\* a > b and a < b of JavaScript for an integer b: false when a is NaN
jsGreater(a, b) == ~a.isNaN /\ a.n > b
jsLess(a, b) == ~a.isNaN /\ a.n < b

\* rows of public.vehicles offered to the component
VehicleRows ==
    "v1" :> [id |-> "v1", type |-> "excavator", capacity |-> "35 ton",
             location |-> "Site A", fuel_type |-> "diesel"]
 @@ "v2" :> [id |-> "v2", type |-> "forklift", capacity |-> "2 ton",
             location |-> "Site B", fuel_type |-> "electric"]
 @@ "v3" :> [id |-> "v3", type |-> "crane", capacity |-> "30 ton",
             location |-> "Site C", fuel_type |-> "diesel"]
 @@ "v4" :> [id |-> "v4", type |-> "truck", capacity |-> "ton",
             location |-> Null, fuel_type |-> "diesel"]
 @@ "v5" :> [id |-> "v5", type |-> "bulldozer", capacity |-> "20 ton",
             location |-> "Site B", fuel_type |-> "diesel"]

GenericReasoning == "General purpose equipment suitable for various tasks."

\* "Type matching" of the forEach body; acc is [score, reasoning]
typeMatching(acc, lowerRequirements, v) ==
    IF includes(lowerRequirements, Str["excavator"]) /\ v.type = "excavator"
    THEN [score |-> acc.score + 3,
          reasoning |-> Append(acc.reasoning, "Excavator specifically requested. ")]
    ELSE IF includes(lowerRequirements, Str["bulldozer"]) /\ v.type = "bulldozer"
    THEN [score |-> acc.score + 3,
          reasoning |-> Append(acc.reasoning, "Bulldozer specifically requested. ")]
    ELSE IF includes(lowerRequirements, Str["crane"]) /\ v.type = "crane"
    THEN [score |-> acc.score + 3,
          reasoning |-> Append(acc.reasoning, "Crane specifically requested. ")]
    ELSE IF includes(lowerRequirements, Str["truck"]) /\ v.type = "truck"
    THEN [score |-> acc.score + 3,
          reasoning |-> Append(acc.reasoning, "Truck specifically requested. ")]
    ELSE IF includes(lowerRequirements, Str["forklift"]) /\ v.type = "forklift"
    THEN [score |-> acc.score + 3,
          reasoning |-> Append(acc.reasoning, "Forklift specifically requested. ")]
    ELSE acc

\* a faulty variant of capacityMatching: the heavy threshold taken inclusively
capacityMatching_inclusive(acc, lowerRequirements, v) ==
    IF includes(lowerRequirements, Str["heavy"]) \/ includes(lowerRequirements, Str["large"])
    THEN IF jsGreater(parseInt(Str[v.capacity]), 29)
         THEN [score |-> acc.score + 2,
               reasoning |-> Append(acc.reasoning, "Heavy capacity equipment needed. ")]
         ELSE acc
    ELSE IF includes(lowerRequirements, Str["small"]) \/ includes(lowerRequirements, Str["light"])
    THEN IF jsLess(parseInt(Str[v.capacity]), 20)
         THEN [score |-> acc.score + 2,
               reasoning |-> Append(acc.reasoning, "Light capacity equipment suitable. ")]
         ELSE acc
    ELSE acc

\* "Capacity matching"
capacityMatching(acc, lowerRequirements, v) ==
    IF includes(lowerRequirements, Str["heavy"]) \/ includes(lowerRequirements, Str["large"])
    THEN IF jsGreater(parseInt(Str[v.capacity]), 30)
         THEN [score |-> acc.score + 2,
               reasoning |-> Append(acc.reasoning, "Heavy capacity equipment needed. ")]
         ELSE acc
    ELSE IF includes(lowerRequirements, Str["small"]) \/ includes(lowerRequirements, Str["light"])
    THEN IF jsLess(parseInt(Str[v.capacity]), 20)
         THEN [score |-> acc.score + 2,
               reasoning |-> Append(acc.reasoning, "Light capacity equipment suitable. ")]
         ELSE acc
    ELSE acc

\* "Location matching"
locationMatching(acc, lowerRequirements, v) ==
    IF includes(lowerRequirements, Str["site a"]) /\ v.location = "Site A"
    THEN [score |-> acc.score + 2,
          reasoning |-> Append(acc.reasoning, "Located at requested site. ")]
    ELSE IF includes(lowerRequirements, Str["site b"]) /\ v.location = "Site B"
    THEN [score |-> acc.score + 2,
          reasoning |-> Append(acc.reasoning, "Located at requested site. ")]
    ELSE IF includes(lowerRequirements, Str["site c"]) /\ v.location = "Site C"
    THEN [score |-> acc.score + 2,
          reasoning |-> Append(acc.reasoning, "Located at requested site. ")]
    ELSE acc

\* "Fuel type preference"
fuelMatching(acc, lowerRequirements, v) ==
    IF includes(lowerRequirements, Str["electric"]) /\ v.fuel_type = "electric"
    THEN [score |-> acc.score + 1,
          reasoning |-> Append(acc.reasoning, "Electric vehicle preferred. ")]
    ELSE IF includes(lowerRequirements, Str["diesel"]) /\ v.fuel_type = "diesel"
    THEN [score |-> acc.score + 1,
          reasoning |-> Append(acc.reasoning, "Diesel vehicle preferred. ")]
    ELSE acc

\* "General construction terms": construction / building
constructionMatching(acc, lowerRequirements, v) ==
    IF /\ includes(lowerRequirements, Str["construction"])
          \/ includes(lowerRequirements, Str["building"])
       /\ v.type \in {"excavator", "bulldozer", "crane"}
    THEN [score |-> acc.score + 1,
          reasoning |-> Append(acc.reasoning, "Suitable for construction work. ")]
    ELSE acc

\* warehouse / storage
warehouseMatching(acc, lowerRequirements, v) ==
    IF /\ includes(lowerRequirements, Str["warehouse"])
          \/ includes(lowerRequirements, Str["storage"])
       /\ v.type = "forklift"
    THEN [score |-> acc.score + 2,
          reasoning |-> Append(acc.reasoning, "Perfect for warehouse operations. ")]
    ELSE acc

\* transport / hauling
transportMatching(acc, lowerRequirements, v) ==
    IF /\ includes(lowerRequirements, Str["transport"])
          \/ includes(lowerRequirements, Str["hauling"])
       /\ v.type = "truck"
    THEN [score |-> acc.score + 2,
          reasoning |-> Append(acc.reasoning, "Ideal for transport and hauling. ")]
    ELSE acc

Max(a, b) == IF a > b THEN a ELSE b
Min(a, b) == IF a < b THEN a ELSE b

\* the body of vehicles.forEach: the entry pushed for one vehicle
scoreVehicle(lowerRequirements, v) ==
    LET a0 == [score |-> 5, reasoning |-> <<>>]
        a1 == typeMatching(a0, lowerRequirements, v)
        a2 == capacityMatching(a1, lowerRequirements, v)
        a3 == locationMatching(a2, lowerRequirements, v)
        a4 == fuelMatching(a3, lowerRequirements, v)
        a5 == constructionMatching(a4, lowerRequirements, v)
        a6 == warehouseMatching(a5, lowerRequirements, v)
        a7 == transportMatching(a6, lowerRequirements, v)
    IN  [vehicle |-> v.id,
         reasoning |-> IF a7.reasoning = <<>> THEN <<GenericReasoning>> ELSE a7.reasoning,
         matchScore |-> Max(1, Min(10, a7.score))]

\* a faulty variant of insertSorted: e is put in front of the entries of equal score
RECURSIVE insertSorted_beforeTies(_, _)
insertSorted_beforeTies(s, e) ==
    IF s = <<>> THEN <<e>>
    ELSE IF Head(s).matchScore - e.matchScore <= 0
         THEN <<e>> \o s
         ELSE <<Head(s)>> \o insertSorted_beforeTies(Tail(s), e)

\* insert entry e into the sorted list s behind every entry that does not compare after it
RECURSIVE insertSorted(_, _)
insertSorted(s, e) ==
    IF s = <<>> THEN <<e>>
    ELSE IF Head(s).matchScore - e.matchScore < 0
         THEN <<e>> \o s
         ELSE <<Head(s)>> \o insertSorted(Tail(s), e)

\* Array.prototype.sort((a, b) => b.matchScore - a.matchScore): stable
RECURSIVE sortByScore(_)
sortByScore(s) ==
    IF s = <<>> THEN <<>>
    ELSE insertSorted(sortByScore(SubSeq(s, 1, Len(s) - 1)), s[Len(s)])

\* Array.prototype.slice(0, n)
slice0(s, n) == SubSeq(s, 1, Min(n, Len(s)))

\* a faulty variant of createRuleBasedRecommendations: the slice(0, 3) left out
createRuleBasedRecommendations_unsliced(requirements, vehicles) ==
    LET lowerRequirements == toLowerCase(requirements)
        recs == [i \in 1..Len(vehicles) |-> scoreVehicle(lowerRequirements, VehicleRows[vehicles[i]])]
    IN  sortByScore(recs)

\* createRuleBasedRecommendations(requirements, vehicles)
createRuleBasedRecommendations(requirements, vehicles) ==
    LET lowerRequirements == toLowerCase(requirements)
        recs == [i \in 1..Len(vehicles) |-> scoreVehicle(lowerRequirements, VehicleRows[vehicles[i]])]
    IN  slice0(sortByScore(recs), 3)

(***************************************************************************)
(* analyzeRequirements: the LLM attempt and its fallback                   *)
(***************************************************************************)

MaxTextLen == 4

\* the generated text as a sequence of lexical tokens: brackets, prose, and the JSON
\* values null, an object with vehicleId and matchScore, each followed by its comma
TextTokens ==
    { [tok |-> "["], [tok |-> "]"], [tok |-> "prose"], [tok |-> "null"],
      [tok |-> "object", vehicleId |-> "v1", reasoning |-> "fits", matchScore |-> 9],
      [tok |-> "object", vehicleId |-> "v2", reasoning |-> "fits", matchScore |-> 12],
      [tok |-> "object", vehicleId |-> "v9", reasoning |-> "fits", matchScore |-> 5] }

RECURSIVE SeqsUpTo(_, _)
SeqsUpTo(S, n) ==
    IF n = 0 THEN {<<>>}
    ELSE LET shorter == SeqsUpTo(S, n - 1)
         IN  shorter \cup {Append(s, x) : s \in {t \in shorter : Len(t) = n - 1}, x \in S}

GeneratedTexts == SeqsUpTo(TextTokens, MaxTextLen)

\* llmResponse.match(/\[.*\]/s): from the first '[' to the last ']' behind it, or no match
jsonMatch(text) ==
    LET opens == {i \in 1..Len(text) : text[i].tok = "["}
        first == CHOOSE i \in opens : \A j \in opens : i <= j
        closes == {i \in 1..Len(text) : text[i].tok = "]" /\ i > first}
        last == CHOOSE i \in closes : \A j \in closes : j <= i
    IN  IF opens = {} \/ closes = {} THEN <<>> ELSE SubSeq(text, first, last)

\* nesting depth behind token k of span
depth(span, k) ==
    Cardinality({i \in 1..k : span[i].tok = "["}) - Cardinality({i \in 1..k : span[i].tok = "]"})

\* JSON.parse(span) returns (an array, as span starts with '[') rather than throws
jsonParses(span) ==
    /\ Len(span) >= 2
    /\ \A k \in 1..Len(span) : span[k].tok # "prose"
    /\ \A k \in 1..(Len(span) - 1) : depth(span, k) >= 1
    /\ depth(span, Len(span)) = 0

\* the elements of the parsed array: the values at depth 1, a nested array as one element
RECURSIVE elementsFrom(_, _)
elementsFrom(span, k) ==
    IF k >= Len(span) THEN <<>>
    ELSE IF depth(span, k - 1) = 1 /\ span[k].tok = "["
         THEN <<[tok |-> "array"]>> \o elementsFrom(span, k + 1)
    ELSE IF depth(span, k - 1) = 1 /\ span[k].tok \in {"null", "object"}
         THEN <<span[k]>> \o elementsFrom(span, k + 1)
    ELSE elementsFrom(span, k + 1)

jsonElements(span) == elementsFrom(span, 2)

\* availableVehicles.find(v => v.id === id), or Null
findVehicle(vehicles, id) ==
    IF \E i \in 1..Len(vehicles) : vehicles[i] = id THEN id ELSE Null

\* parsed.map(rec => vehicle ? {...} : null).filter(Boolean); rec.vehicleId of null throws
RECURSIVE mapEntries(_, _)
mapEntries(parsed, vehicles) ==
    IF parsed = <<>> THEN [threw |-> FALSE, out |-> <<>>]
    ELSE LET rec == Head(parsed) IN
         IF rec.tok = "null" THEN [threw |-> TRUE, out |-> <<>>]
         ELSE LET rest == mapEntries(Tail(parsed), vehicles)
                  found == IF rec.tok = "object" THEN findVehicle(vehicles, rec.vehicleId) ELSE Null
              IN  IF rest.threw THEN rest
                  ELSE IF found = Null THEN rest
                  ELSE [threw |-> FALSE,
                        out |-> <<[vehicle |-> found, reasoning |-> <<rec.reasoning>>,
                                   matchScore |-> rec.matchScore]>> \o rest.out]

\* a faulty variant of parseLlmResponse: a null element is skipped rather than ending the attempt
parseLlmResponse_skipNull(llmResponse, vehicles) ==
    LET jsonMatched == jsonMatch(llmResponse) IN
    IF jsonMatched = <<>> THEN <<>>
    ELSE IF ~jsonParses(jsonMatched) THEN <<>>
    ELSE mapEntries(SelectSeq(jsonElements(jsonMatched), LAMBDA e : e.tok # "null"), vehicles).out

\* the inner try block: parsedRecommendations, [] when anything in it throws
parseLlmResponse(llmResponse, vehicles) ==
    LET jsonMatched == jsonMatch(llmResponse) IN
    IF jsonMatched = <<>> THEN <<>>
    ELSE IF ~jsonParses(jsonMatched) THEN <<>>
    ELSE LET mapped == mapEntries(jsonElements(jsonMatched), vehicles)
         IN  IF mapped.threw THEN <<>> ELSE mapped.out

\* a faulty variant of finalRecommendations: the fallback entries are kept behind the parsed ones
finalRecommendations_mixed(parsedRecommendations, fallbackRecommendations) ==
    parsedRecommendations \o fallbackRecommendations

\* finalRecommendations
finalRecommendations(parsedRecommendations, fallbackRecommendations) ==
    IF Len(parsedRecommendations) > 0 THEN parsedRecommendations ELSE fallbackRecommendations

\* the catch block: the recommendations it displays
catchRecommendations(requirements, vehicles) ==
    createRuleBasedRecommendations(requirements, vehicles)

\* the button 'Get AI Recommendations' is enabled
analyzeEnabled == ~isLoading /\ trim(userRequirements) # <<>>

\* analyzeRequirements: entry, the two early returns, up to the fetch
analyzeRequirements ==
    /\ recPc = "idle"
    /\ analyzeEnabled
    /\ IF trim(userRequirements) = <<>>
       THEN /\ recToasts' = recToasts \cup {"Error"}
            /\ recPc' = "done"
            /\ UNCHANGED <<isLoading, fetchCount>>
       ELSE IF HUGGING_FACE_API_KEY = ""
       THEN /\ recToasts' = recToasts \cup {"API Key Required"}
            /\ recPc' = "done"
            /\ UNCHANGED <<isLoading, fetchCount>>
       ELSE /\ isLoading' = TRUE
            /\ fetchCount' = fetchCount + 1
            /\ recPc' = "fetch"
            /\ UNCHANGED recToasts
    /\ UNCHANGED <<userRequirements, availableVehicles, HUGGING_FACE_API_KEY,
                   recommendations, llmResult>>
    /\ UNCHANGED <<rentalVars, anomalyVars, authVars>>

\* analyzeRequirements: fetch settles; it throws, or answers with or without response.ok
analyzeRequirements_fetch ==
    /\ recPc = "fetch"
    /\ \E outcome \in {"throw", "not_ok", "ok"} :
        IF outcome = "ok"
        THEN /\ recPc' = "json"
             /\ llmResult' = [kind |-> "ok", text |-> <<>>]
             /\ UNCHANGED <<recommendations, recToasts, isLoading>>
        ELSE /\ recommendations' = catchRecommendations(userRequirements, availableVehicles)
             /\ recToasts' = recToasts \cup {"LLM Unavailable"}
             /\ isLoading' = FALSE
             /\ llmResult' = [kind |-> outcome, text |-> <<>>]
             /\ recPc' = "done"
    /\ UNCHANGED <<userRequirements, availableVehicles, HUGGING_FACE_API_KEY, fetchCount>>
    /\ UNCHANGED <<rentalVars, anomalyVars, authVars>>

\* analyzeRequirements: response.json() settles; the rest of the try block runs
analyzeRequirements_json ==
    /\ recPc = "json"
    /\ \E fallbackRecommendations \in
            {createRuleBasedRecommendations(userRequirements, availableVehicles)} :
           \/ \E outcome \in {"bad_body", "null_body"} :
                \* response.json() throws, or data[0] of null throws
                /\ recommendations' = catchRecommendations(userRequirements, availableVehicles)
                /\ recToasts' = recToasts \cup {"LLM Unavailable"}
                /\ llmResult' = [kind |-> outcome, text |-> <<>>]
           \/ \E llmResponse \in GeneratedTexts :
                LET parsedRecommendations == parseLlmResponse(llmResponse, availableVehicles)
                IN  /\ recommendations' =
                            finalRecommendations(parsedRecommendations, fallbackRecommendations)
                    /\ recToasts' = recToasts \cup {"Success"}
                    /\ llmResult' = [kind |-> "text", text |-> llmResponse]
    /\ isLoading' = FALSE
    /\ recPc' = "done"
    /\ UNCHANGED <<userRequirements, availableVehicles, HUGGING_FACE_API_KEY, fetchCount>>
    /\ UNCHANGED <<rentalVars, anomalyVars, authVars>>

\* createRuleBasedRecommendations applied to the inputs
scoreRequirements ==
    /\ recPc = "idle"
    /\ recommendations' = createRuleBasedRecommendations(userRequirements, availableVehicles)
    /\ recPc' = "scored"
    /\ UNCHANGED <<userRequirements, availableVehicles, HUGGING_FACE_API_KEY, isLoading,
                   recToasts, fetchCount, llmResult>>
    /\ UNCHANGED <<rentalVars, anomalyVars, authVars>>

MaxReqWords == 2
MaxVehicles == 4

RequirementWords == {"heavy", "lightweight", "excavator", "Site", "A"}

RequirementSentences ==
    { "I need a heavy excavator at Site A",
      "I need a heavy excavator for construction at Site A",
      "Looking for electric forklift for warehouse operations",
      "Need truck for hauling materials",
      "small diesel bulldozer for building transport and storage at site b",
      "large crane at SITE C",
      "   " }

\* the words joined by single blanks
RECURSIVE joinWords(_)
joinWords(ws) ==
    IF ws = <<>> THEN <<>>
    ELSE IF Len(ws) = 1 THEN Str[ws[1]]
    ELSE Str[ws[1]] \o <<" ">> \o joinWords(Tail(ws))

Requirements ==
    {joinWords(ws) : ws \in SeqsUpTo(RequirementWords, MaxReqWords)}
        \cup {Str[s] : s \in RequirementSentences}

\* lists of distinct vehicles of ids, of at most n entries
VehicleLists(ids, n) ==
    {s \in SeqsUpTo(ids, n) : \A i, j \in 1..Len(s) : i # j => s[i] # s[j]}

InitRecIdle ==
    /\ userRequirements = <<>>
    /\ availableVehicles = <<>>
    /\ HUGGING_FACE_API_KEY = ""
    /\ recommendations = <<>>
    /\ isLoading = FALSE
    /\ recPc = "off"
    /\ recToasts = {}
    /\ fetchCount = 0
    /\ llmResult = [kind |-> "none", text |-> <<>>]

InitScorer ==
    /\ InitRentals
    /\ userRequirements \in Requirements
    /\ availableVehicles \in VehicleLists(DOMAIN VehicleRows, MaxVehicles)
    /\ HUGGING_FACE_API_KEY = ""
    /\ recommendations = <<>>
    /\ isLoading = FALSE
    /\ recPc = "idle"
    /\ recToasts = {}
    /\ fetchCount = 0
    /\ llmResult = [kind |-> "none", text |-> <<>>]

InitRec ==
    /\ InitRentals
    /\ userRequirements \in {Str[s] : s \in {"I need a heavy excavator at Site A",
                                             "Need truck for hauling materials"}}
    /\ availableVehicles \in {<<>>, <<"v1">>, <<"v1", "v2">>, <<"v4", "v1">>}
    /\ HUGGING_FACE_API_KEY \in {"", "hf_token"}
    /\ recommendations = <<>>
    /\ isLoading = FALSE
    /\ recPc = "idle"
    /\ recToasts = {}
    /\ fetchCount = 0
    /\ llmResult = [kind |-> "none", text |-> <<>>]

(***************************************************************************)
(* Part 4: the anomaly views and RPCs of the migration                     *)
(***************************************************************************)

\* public.vehicles as the views read it: the vehicles above and one of type 'other'
FleetRows ==
    VehicleRows
 @@ "v6" :> [id |-> "v6", type |-> "other", capacity |-> "1 ton",
             location |-> "Site A", fuel_type |-> "diesel"]

\* exact rationals n/d with d > 0, for numeric and float8 values
RECURSIVE Gcd(_, _)
Gcd(a, b) == IF b = 0 THEN a ELSE Gcd(b, a % b)

Abs(x) == IF x < 0 THEN -x ELSE x

Rat(n, d) ==
    LET g == Gcd(Abs(n), d) IN [n |-> n \div g, d |-> d \div g]

RatLess(a, b) == a.n * b.d < b.n * a.d

RatAdd(a, b) == Rat(a.n * b.d + b.n * a.d, a.d * b.d)

\* _per_type_thresholds: fuel per hour, and idle ratio in hundredths
per_type_thresholds ==
    "excavator" :> [fuel_per_hour_threshold |-> 25, idle_ratio_threshold |-> Rat(70, 100)]
 @@ "bulldozer" :> [fuel_per_hour_threshold |-> 30, idle_ratio_threshold |-> Rat(60, 100)]
 @@ "crane" :> [fuel_per_hour_threshold |-> 20, idle_ratio_threshold |-> Rat(65, 100)]
 @@ "truck" :> [fuel_per_hour_threshold |-> 35, idle_ratio_threshold |-> Rat(50, 100)]
 @@ "forklift" :> [fuel_per_hour_threshold |-> 8, idle_ratio_threshold |-> Rat(80, 100)]

\* timestamps are whole hours
HoursPerDay == 24

\* EXTRACT(days FROM (later - earlier)) for later >= earlier
extractDays(later, earlier) == (later - earlier) \div HoursPerDay

\* a faulty variant of idle_ratio: a rental without recorded time counts as idle throughout
idle_ratio_unguarded(r) ==
    IF r.idle_time + r.working_time > 0
    THEN Rat(r.idle_time, r.idle_time + r.working_time)
    ELSE Rat(1, 1)

\* the idle_ratio column of rental_metrics; float8 division, exact at these magnitudes
idle_ratio(r) ==
    IF r.idle_time + r.working_time > 0
    THEN Rat(r.idle_time, r.idle_time + r.working_time)
    ELSE Rat(0, 1)

\* the fuel_per_hour column of rental_metrics
fuel_per_hour(r) ==
    IF r.working_time > 0 THEN Rat(r.fuel_usage, r.working_time) ELSE Rat(0, 1)

\* a faulty variant of rental_metrics: returned rentals are kept in
rental_metrics_returned(rs) ==
    {[rental_id |-> i,
      vehicle_id |-> rs[i].vehicle_id,
      check_out_date |-> rs[i].check_out_date,
      expected_return_date |-> rs[i].expected_return_date,
      working_time |-> rs[i].working_time,
      downtime |-> rs[i].downtime,
      vehicle_type |-> FleetRows[rs[i].vehicle_id].type,
      fuel_per_hour_threshold |->
            Rat(per_type_thresholds[FleetRows[rs[i].vehicle_id].type].fuel_per_hour_threshold, 1),
      idle_ratio_threshold |->
            per_type_thresholds[FleetRows[rs[i].vehicle_id].type].idle_ratio_threshold,
      idle_ratio |-> idle_ratio(rs[i]),
      fuel_per_hour |-> fuel_per_hour(rs[i])] :
        i \in {k \in DOMAIN rs :
                /\ rs[k].check_in_date \in {Null, "now"}
                /\ rs[k].vehicle_id \in DOMAIN FleetRows
                /\ FleetRows[rs[k].vehicle_id].type \in DOMAIN per_type_thresholds}}

\* the CTE rental_metrics over the rentals table rs: active rentals joined with their
\* vehicle and the threshold row of its type
rental_metrics(rs) ==
    {[rental_id |-> i,
      vehicle_id |-> rs[i].vehicle_id,
      check_out_date |-> rs[i].check_out_date,
      expected_return_date |-> rs[i].expected_return_date,
      working_time |-> rs[i].working_time,
      downtime |-> rs[i].downtime,
      vehicle_type |-> FleetRows[rs[i].vehicle_id].type,
      fuel_per_hour_threshold |->
            Rat(per_type_thresholds[FleetRows[rs[i].vehicle_id].type].fuel_per_hour_threshold, 1),
      idle_ratio_threshold |->
            per_type_thresholds[FleetRows[rs[i].vehicle_id].type].idle_ratio_threshold,
      idle_ratio |-> idle_ratio(rs[i]),
      fuel_per_hour |-> fuel_per_hour(rs[i])] :
        i \in {k \in DOMAIN rs :
                /\ rs[k].check_in_date = Null
                /\ rs[k].vehicle_id \in DOMAIN FleetRows
                /\ FleetRows[rs[k].vehicle_id].type \in DOMAIN per_type_thresholds}}

anomalyRow(m, t, kind, severity, score) ==
    [rental_id |-> m.rental_id, vehicle_id |-> m.vehicle_id, vehicle_type |-> m.vehicle_type,
     anomaly |-> kind, severity |-> severity, score |-> score, detected_at |-> t]

RatScale(a, k) == Rat(a.n * k, a.d)

RatSub(a, b) == Rat(a.n * b.d - b.n * a.d, a.d * b.d)

\* a faulty variant of overdue_anomaly: a rental due at this very moment counts as overdue
overdue_anomaly_inclusive(m, t) ==
    IF m.expected_return_date <= t
    THEN {anomalyRow(m, t, "overdue", "high", Rat(extractDays(t, m.expected_return_date) * 10, 1))}
    ELSE {}

\* overdue_anomaly of anomaly_detection: the row, or none
overdue_anomaly(m, t) ==
    IF m.expected_return_date < t
    THEN {anomalyRow(m, t, "overdue", "high", Rat(extractDays(t, m.expected_return_date) * 10, 1))}
    ELSE {}

\* a faulty variant of idle_anomaly: the severity boundary taken at the threshold itself
idle_anomaly_allHigh(m, t) ==
    IF RatLess(m.idle_ratio_threshold, m.idle_ratio)
    THEN {anomalyRow(m, t, "high_idle_ratio", "high",
                     RatScale(RatSub(m.idle_ratio, m.idle_ratio_threshold), 100))}
    ELSE {}

\* idle_anomaly of anomaly_detection
idle_anomaly(m, t) ==
    IF RatLess(m.idle_ratio_threshold, m.idle_ratio)
    THEN {anomalyRow(m, t, "high_idle_ratio",
                     IF RatLess(RatScale(m.idle_ratio_threshold, 12), RatScale(m.idle_ratio, 10))
                     THEN "high" ELSE "medium",
                     RatScale(RatSub(m.idle_ratio, m.idle_ratio_threshold), 100))}
    ELSE {}

\* a faulty variant of no_work_anomaly: a rental checked out exactly a day ago is reported
no_work_anomaly_fromOneDay(m, t) ==
    IF m.working_time = 0 /\ m.check_out_date <= t - HoursPerDay
    THEN {anomalyRow(m, t, "no_work_while_rented", "medium",
                     Rat(extractDays(t, m.check_out_date) * 5, 1))}
    ELSE {}

\* no_work_anomaly of anomaly_detection
no_work_anomaly(m, t) ==
    IF m.working_time = 0 /\ m.check_out_date < t - HoursPerDay
    THEN {anomalyRow(m, t, "no_work_while_rented", "medium",
                     Rat(extractDays(t, m.check_out_date) * 5, 1))}
    ELSE {}

\* a faulty variant of fuel_anomaly: the severity boundary taken inclusively
fuel_anomaly_highAtBoundary(m, t) ==
    IF RatLess(m.fuel_per_hour_threshold, m.fuel_per_hour)
    THEN {anomalyRow(m, t, "excess_fuel_per_hour",
                     IF ~RatLess(RatScale(m.fuel_per_hour, 10), RatScale(m.fuel_per_hour_threshold, 13))
                     THEN "high" ELSE "medium",
                     RatScale(RatSub(m.fuel_per_hour, m.fuel_per_hour_threshold), 2))}
    ELSE {}

\* fuel_anomaly of anomaly_detection
fuel_anomaly(m, t) ==
    IF RatLess(m.fuel_per_hour_threshold, m.fuel_per_hour)
    THEN {anomalyRow(m, t, "excess_fuel_per_hour",
                     IF RatLess(RatScale(m.fuel_per_hour_threshold, 13), RatScale(m.fuel_per_hour, 10))
                     THEN "high" ELSE "medium",
                     RatScale(RatSub(m.fuel_per_hour, m.fuel_per_hour_threshold), 2))}
    ELSE {}

\* a faulty variant of downtime_anomaly: six hours already count as high
downtime_anomaly_highAtSix(m, t) ==
    IF m.downtime > 3
    THEN {anomalyRow(m, t, "long_downtime", IF m.downtime >= 6 THEN "high" ELSE "medium",
                     Rat((m.downtime - 3) * 3, 1))}
    ELSE {}

\* downtime_anomaly of anomaly_detection
downtime_anomaly(m, t) ==
    IF m.downtime > 3
    THEN {anomalyRow(m, t, "long_downtime", IF m.downtime > 6 THEN "high" ELSE "medium",
                     Rat((m.downtime - 3) * 3, 1))}
    ELSE {}

\* the view rental_anomalies at time t: the non-null anomalies of every metrics row
rental_anomalies(rs, t) ==
    UNION {overdue_anomaly(m, t) \cup idle_anomaly(m, t) \cup no_work_anomaly(m, t)
            \cup fuel_anomaly(m, t) \cup downtime_anomaly(m, t) : m \in rental_metrics(rs)}

\* the rows get_rental_anomalies() selects: rental_anomalies joined with vehicles
get_rental_anomalies_rows(rs, t) ==
    {a \in rental_anomalies(rs, t) : a.vehicle_id \in DOMAIN FleetRows}

\* a faulty variant of get_vehicle_anomalies_rows: the WHERE clause left out
get_vehicle_anomalies_rows_unfiltered(rs, t, target_vehicle_id) ==
    {a \in rental_anomalies(rs, t) : a.vehicle_id \in DOMAIN FleetRows}

\* the rows get_vehicle_anomalies(target_vehicle_id) selects
get_vehicle_anomalies_rows(rs, t, target_vehicle_id) ==
    {a \in rental_anomalies(rs, t) :
        a.vehicle_id \in DOMAIN FleetRows /\ a.vehicle_id = target_vehicle_id}

\* ORDER BY score DESC, detected_at DESC: a goes before b, b before a, or either
anomalyBefore(a, b) ==
    \/ RatLess(b.score, a.score)
    \/ (~RatLess(a.score, b.score) /\ a.detected_at > b.detected_at)

\* every sequence of the anomaly rows S that the ORDER BY may return
RECURSIVE anomalyOrderings(_)
anomalyOrderings(S) ==
    IF S = {} THEN {<<>>}
    ELSE UNION {{<<x>> \o rest : rest \in anomalyOrderings(S \ {x})} :
                    x \in {y \in S : \A z \in S : ~anomalyBefore(z, y)}}

\* SUM(a.score) over the anomaly rows S, 0 for none
RECURSIVE scoreSum(_)
scoreSum(S) ==
    IF S = {} THEN Rat(0, 1)
    ELSE LET x == CHOOSE y \in S : TRUE IN RatAdd(x.score, scoreSum(S \ {x}))

\* a faulty variant of rental_anomaly_summary: the filter on is_rented left out
rental_anomaly_summary_unfiltered(rs, rented, t) ==
    {LET rows == {a \in rental_anomalies(rs, t) : a.vehicle_id = v} IN
        [vehicle_id |-> v,
         total_anomalies |-> Cardinality(rows),
         high_severity_count |-> Cardinality({a \in rows : a.severity = "high"}),
         medium_severity_count |-> Cardinality({a \in rows : a.severity = "medium"}),
         low_severity_count |-> Cardinality({a \in rows : a.severity = "low"}),
         total_anomaly_score |-> scoreSum(rows)] :
        v \in DOMAIN rented}

\* the view rental_anomaly_summary: one row per vehicle with is_rented = true
rental_anomaly_summary(rs, rented, t) ==
    {LET rows == {a \in rental_anomalies(rs, t) : a.vehicle_id = v} IN
        [vehicle_id |-> v,
         total_anomalies |-> Cardinality(rows),
         high_severity_count |-> Cardinality({a \in rows : a.severity = "high"}),
         medium_severity_count |-> Cardinality({a \in rows : a.severity = "medium"}),
         low_severity_count |-> Cardinality({a \in rows : a.severity = "low"}),
         total_anomaly_score |-> scoreSum(rows)] :
        v \in {w \in DOMAIN rented : rented[w] = TRUE}}

\* ORDER BY total_anomaly_score DESC
summaryBefore(a, b) == RatLess(b.total_anomaly_score, a.total_anomaly_score)

\* every sequence of the summary rows S that the ORDER BY may return
RECURSIVE summaryOrderings(_)
summaryOrderings(S) ==
    IF S = {} THEN {<<>>}
    ELSE UNION {{<<x>> \o rest : rest \in summaryOrderings(S \ {x})} :
                    x \in {y \in S : \A z \in S : ~summaryBefore(z, y)}}

\* RPC get_rental_anomalies()
get_rental_anomalies ==
    /\ \E result \in anomalyOrderings(get_rental_anomalies_rows(rentals, now)) :
        queryResult' = result
    /\ query' = [kind |-> "get_rental_anomalies", target |-> Null]
    /\ UNCHANGED <<now, rentalVars, recVars, authVars>>

\* RPC get_vehicle_anomalies(target_vehicle_id)
get_vehicle_anomalies(target_vehicle_id) ==
    /\ \E result \in anomalyOrderings(
                        get_vehicle_anomalies_rows(rentals, now, target_vehicle_id)) :
        queryResult' = result
    /\ query' = [kind |-> "get_vehicle_anomalies", target |-> target_vehicle_id]
    /\ UNCHANGED <<now, rentalVars, recVars, authVars>>

\* RPC get_anomaly_summary()
get_anomaly_summary ==
    /\ \E result \in summaryOrderings(rental_anomaly_summary(rentals, is_rented, now)) :
        queryResult' = result
    /\ query' = [kind |-> "get_anomaly_summary", target |-> Null]
    /\ UNCHANGED <<now, rentalVars, recVars, authVars>>

\* the time of the queries, in hours
NowHours == 240

\* two days pass
TickHours == 48

tick ==
    /\ now = NowHours
    /\ now' = now + TickHours
    /\ UNCHANGED <<query, queryResult, rentalVars, recVars, authVars>>

AnomalyVehicles == DOMAIN FleetRows

\* (check_out_date, expected_return_date) of the rentals examined
RentalPeriods ==
    { <<0, NowHours - 72>>,               \* out for 10 days, due exactly 3 days ago
      <<NowHours - 100, NowHours - 1>>,   \* due an hour ago
      <<NowHours - 25, NowHours>>,        \* out for 25 hours, due now
      <<NowHours - 24, NowHours + 24>> }  \* out for exactly a day, due tomorrow

\* (idle_time, working_time) of the rentals examined
IdleWorking ==
    { <<0, 0>>, <<50, 50>>, <<51, 49>>, <<60, 40>>, <<65, 35>>, <<70, 30>>, <<72, 28>>,
      <<78, 22>>, <<80, 20>>, <<84, 16>>, <<85, 15>>, <<96, 4>>, <<97, 3>>, <<100, 0>> }

\* (fuel_usage, downtime) of the rentals examined
FuelDowntime == { <<0, 3>>, <<650, 6>>, <<900, 7>> }

AnomalyRentalRows ==
    {[vehicle_id |-> v, user_id |-> "u1", check_in_date |-> ci,
      check_out_date |-> p[1], expected_return_date |-> p[2],
      idle_time |-> iw[1], working_time |-> iw[2], fuel_usage |-> fd[1], downtime |-> fd[2]] :
        v \in AnomalyVehicles, ci \in {Null, "now"}, p \in RentalPeriods,
        iw \in IdleWorking, fd \in FuelDowntime}

\* a second rental next to the first
SecondRentalRows ==
    {r \in AnomalyRentalRows :
        /\ r.vehicle_id \in {"v1", "v2"}
        /\ r.check_in_date = Null
        /\ r.expected_return_date = NowHours - 72
        /\ <<r.idle_time, r.working_time>> \in {<<0, 0>>, <<80, 20>>}
        /\ r.fuel_usage = 0}

AnomalyTables ==
    {<<>>} \cup {<<r>> : r \in AnomalyRentalRows}
           \cup {<<r, s>> : r \in AnomalyRentalRows, s \in SecondRentalRows}

InitAnomalyIdle ==
    /\ now = NowHours
    /\ query = [kind |-> "none", target |-> Null]
    /\ queryResult = <<>>

InitAnomaly ==
    /\ InitPages
    /\ InitRecIdle
    /\ InitAnomalyIdle
    /\ rentals \in AnomalyTables
    /\ is_rented \in {[v \in AnomalyVehicles |-> v \in {"v1", "v2", "v3"}],
                      [v \in AnomalyVehicles |-> ActiveIn(rentals, v) # {}],
                      [v \in AnomalyVehicles |-> v = "v2"]}

\* the pages at work on a fleet that is idle or has one rental overdue for three days
LiveTables ==
    {<<>>,
     <<[vehicle_id |-> "v1", user_id |-> "u2", check_in_date |-> Null,
        check_out_date |-> 0, expected_return_date |-> NowHours - 72,
        idle_time |-> 80, working_time |-> 20, fuel_usage |-> 900, downtime |-> 7]>>}

InitLive ==
    /\ InitPages
    /\ InitRecIdle
    /\ InitAnomalyIdle
    /\ rentals \in LiveTables
    /\ is_rented = [v \in Vehicles |-> ActiveIn(rentals, v) # {}]

(***************************************************************************)
(* Part 5: the auth provider and the routes of the application             *)
(***************************************************************************)

\* the accounts that sign in on this browser tab, and public.profiles
AuthUsers == {"d1", "u1"}

Sessions == AuthUsers \cup {Null}

profiles == [u \in AuthUsers |->
                [user_id |-> u, role |-> IF IsDealer(u) THEN "dealer" ELSE "user"]]

Paths == {"/", "/vehicles", "/scanner", "/anomalies", "/profile", "/auth", "/missing"}

\* what a route element renders
LoadingElement == [kind |-> "loading", to |-> Null]

NavigateTo(path) == [kind |-> "navigate", to |-> path]

Page(name) == [kind |-> "page", to |-> name]

ProtectedRoute(children) ==
    IF loading THEN LoadingElement
    ELSE IF user # Null THEN children ELSE NavigateTo("/auth")

\* a faulty variant of DealerRoute: it lets every signed-in user through
DealerRoute_anyUser(children) ==
    IF loading THEN LoadingElement
    ELSE IF user = Null THEN NavigateTo("/auth")
    ELSE children

DealerRoute(children) ==
    IF loading THEN LoadingElement
    ELSE IF user = Null THEN NavigateTo("/auth")
    ELSE IF profile # Null /\ profiles[profile].role = "dealer" THEN children
    ELSE NavigateTo("/")

\* <Routes>: the element of the route that matches the location
Routes ==
    CASE location = "/"          -> ProtectedRoute(Page("Dashboard"))
      [] location = "/vehicles"  -> ProtectedRoute(Page("Vehicles"))
      [] location = "/scanner"   -> DealerRoute(Page("QRScanner"))
      [] location = "/anomalies" -> ProtectedRoute(Page("Anomalies"))
      [] location = "/profile"   -> ProtectedRoute(Page("Profile"))
      [] location = "/auth"      -> Page("Auth")
      [] OTHER                   -> Page("NotFound")

\* the pages that are wrapped in <Layout>
InLayout == Routes.kind = "page" /\ Routes.to \notin {"Auth", "NotFound"}

\* AuthProvider just mounted: the effect has subscribed, called getSession and
\* started the safety timer
AuthMounted(path) ==
    /\ user = Null
    /\ profile = Null
    /\ loading = TRUE
    /\ profileFetches = {}
    /\ getSessionPending = TRUE
    /\ safetyTimerPending = TRUE
    /\ location = path

InitAuth == \E path \in Paths : AuthMounted(path)

\* the other specifications leave the provider as mounted at the dashboard
InitAuthIdle == AuthMounted("/")

\* the callback given to supabase.auth.onAuthStateChange, up to its await
onAuthStateChange(session) ==
    /\ user' = session
    /\ loading' = FALSE
    /\ IF session # Null
       THEN /\ profileFetches' = profileFetches \cup {session}
            /\ UNCHANGED profile
       ELSE /\ profile' = Null
            /\ UNCHANGED profileFetches
    /\ UNCHANGED <<getSessionPending, safetyTimerPending, location>>
    /\ UNCHANGED <<rentalVars, recVars, anomalyVars>>

\* the callback after its await: the profiles query answered, or threw
onAuthStateChange_profile(u, outcome) ==
    /\ u \in profileFetches
    /\ profileFetches' = profileFetches \ {u}
    /\ profile' = CASE outcome = "row"   -> profiles[u].user_id
                    [] outcome = "null"  -> Null
                    [] outcome = "throw" -> profile
    /\ UNCHANGED <<user, loading, getSessionPending, safetyTimerPending, location>>
    /\ UNCHANGED <<rentalVars, recVars, anomalyVars>>

getSession_then(session) ==
    /\ getSessionPending
    /\ getSessionPending' = FALSE
    /\ user' = session
    /\ loading' = FALSE
    /\ UNCHANGED <<profile, profileFetches, safetyTimerPending, location>>
    /\ UNCHANGED <<rentalVars, recVars, anomalyVars>>

getSession_catch ==
    /\ getSessionPending
    /\ getSessionPending' = FALSE
    /\ loading' = FALSE
    /\ UNCHANGED <<user, profile, profileFetches, safetyTimerPending, location>>
    /\ UNCHANGED <<rentalVars, recVars, anomalyVars>>

\* a faulty variant of safetyTimer: it leaves loading as it is
safetyTimer_keepsLoading ==
    /\ safetyTimerPending
    /\ safetyTimerPending' = FALSE
    /\ loading' = loading
    /\ UNCHANGED <<user, profile, profileFetches, getSessionPending, location>>
    /\ UNCHANGED <<rentalVars, recVars, anomalyVars>>

safetyTimer ==
    /\ safetyTimerPending
    /\ safetyTimerPending' = FALSE
    /\ loading' = IF loading THEN FALSE ELSE loading
    /\ UNCHANGED <<user, profile, profileFetches, getSessionPending, location>>
    /\ UNCHANGED <<rentalVars, recVars, anomalyVars>>

\* Layout's sign-out button: the page is reloaded at /auth
handleSignOut ==
    /\ InLayout
    /\ user' = Null
    /\ profile' = Null
    /\ loading' = TRUE
    /\ profileFetches' = {}
    /\ getSessionPending' = TRUE
    /\ safetyTimerPending' = TRUE
    /\ location' = "/auth"
    /\ UNCHANGED <<rentalVars, recVars, anomalyVars>>

\* a <Link> is followed, or the history moves
openLocation(path) ==
    /\ location' = path
    /\ UNCHANGED <<user, profile, loading, profileFetches, getSessionPending,
                   safetyTimerPending>>
    /\ UNCHANGED <<rentalVars, recVars, anomalyVars>>

\* the effect of a rendered <Navigate to=... replace />
Navigate ==
    /\ Routes.kind = "navigate"
    /\ location' = Routes.to
    /\ UNCHANGED <<user, profile, loading, profileFetches, getSessionPending,
                   safetyTimerPending>>
    /\ UNCHANGED <<rentalVars, recVars, anomalyVars>>

(***************************************************************************)
(* Specifications                                                          *)
(***************************************************************************)

vars == <<rentalVars, recVars, anomalyVars, authVars>>

DealerStep(c, ids) ==
    \/ \E id \in ids : handleScan(c, id)
    \/ handleScan_vehicle(c)
    \/ handleScan_rental(c)
    \/ handleCheckOut(c)
    \/ cancelCheckoutDialog(c)
    \/ \E u \in Renters \cup {EmptyId} : confirmDealerCheckout(c, u)
    \/ proceedCheckout_guard(c)
    \/ proceedCheckout_insert(c)
    \/ proceedCheckout_vehicle(c)
    \/ handleCheckIn(c)
    \/ handleCheckIn_rental(c)
    \/ handleCheckIn_vehicle(c)
    \/ handlerReturns(c)

RenterStep(c) ==
    \/ fetchVehicles(c)
    \/ \E v \in Vehicles : handleRentVehicle(c, v)
    \/ handleRentVehicle_guard(c)
    \/ handleRentVehicle_insert(c)
    \/ handleRentVehicle_fetch(c)
    \/ handleRentVehicle_refetch(c)
    \/ handlerReturns(c)

\* one dealer on the scanner page and one renter on the Vehicles page
Init == InitRentals /\ InitRecIdle /\ InitAnomalyIdle /\ InitAuthIdle

Next == DealerStep("d1", ScanInputs) \/ RenterStep("u1")

Spec == Init /\ [][Next]_vars

\* two dealers on the scanner page, both working on vehicle v1
NextDealers == \E c \in Dealers : DealerStep(c, {"v1", "v9"})

SpecDealers == Init /\ [][NextDealers]_vars

\* one dealer on the scanner page entering identifiers and copied QR payloads
NextScan == DealerStep("d1", QRInputs)

SpecScan == Init /\ [][NextScan]_vars

\* the recommendation component, one click on 'Get AI Recommendations'
NextRec == analyzeRequirements \/ analyzeRequirements_fetch \/ analyzeRequirements_json

RecInit == InitRec /\ InitAnomalyIdle /\ InitAuthIdle

SpecRec == RecInit /\ [][NextRec]_vars

\* the rule-based scorer applied to every input
NextScorer == scoreRequirements

ScorerInit == InitScorer /\ InitAnomalyIdle /\ InitAuthIdle

SpecScorer == ScorerInit /\ [][NextScorer]_vars

\* the anomaly RPCs called on a rentals table
NextAnomaly ==
    \/ get_rental_anomalies
    \/ \E v \in AnomalyVehicles : get_vehicle_anomalies(v)
    \/ get_anomaly_summary

AnomalyInit == InitAnomaly /\ InitAuthIdle

SpecAnomaly == AnomalyInit /\ [][NextAnomaly]_vars

\* a dealer checking vehicle v1 in, a renter renting it on the Vehicles page, and the
\* passing of time, next to the anomaly RPCs
NextLive ==
    \/ handleScan("d1", "v1")
    \/ handleScan_vehicle("d1")
    \/ handleScan_rental("d1")
    \/ handleCheckIn("d1")
    \/ handleCheckIn_rental("d1")
    \/ handleCheckIn_vehicle("d1")
    \/ handlerReturns("d1")
    \/ fetchVehicles("u1")
    \/ handleRentVehicle("u1", "v1")
    \/ handleRentVehicle_guard("u1")
    \/ handleRentVehicle_insert("u1")
    \/ handleRentVehicle_fetch("u1")
    \/ handleRentVehicle_refetch("u1")
    \/ handlerReturns("u1")
    \/ tick
    \/ get_rental_anomalies
    \/ get_vehicle_anomalies("v1")
    \/ get_anomaly_summary

LiveInit == InitLive /\ InitAuthIdle

SpecLive == LiveInit /\ [][NextLive]_vars

\* the auth provider and the router, from the mount of the application
NextAuth ==
    \/ \E session \in Sessions : onAuthStateChange(session)
    \/ \E u \in AuthUsers, outcome \in {"row", "null", "throw"} :
           onAuthStateChange_profile(u, outcome)
    \/ \E session \in Sessions : getSession_then(session)
    \/ getSession_catch
    \/ safetyTimer
    \/ handleSignOut
    \/ \E path \in Paths : openLocation(path)
    \/ Navigate

AuthInit == InitRentals /\ InitRecIdle /\ InitAnomalyIdle /\ InitAuth

SpecAuth == AuthInit /\ [][NextAuth]_vars

\* the provider while it stays mounted (no reload of the page); the browser runs
\* the safety timer's callback once it is due, the network may never answer
NextMounted ==
    \/ \E session \in Sessions : onAuthStateChange(session)
    \/ \E u \in AuthUsers, outcome \in {"row", "null", "throw"} :
           onAuthStateChange_profile(u, outcome)
    \/ \E session \in Sessions : getSession_then(session)
    \/ getSession_catch
    \/ safetyTimer
    \/ \E path \in Paths : openLocation(path)
    \/ Navigate

SpecMounted == AuthInit /\ [][NextMounted]_vars /\ WF_vars(safetyTimer)

(***************************************************************************)
(* Properties                                                              *)
(***************************************************************************)

Range(s) == {s[i] : i \in 1..Len(s)}

DestructiveToasts == {"Error", "Already rented", "Vehicle not found", "Missing info"}

\* C1: in every reachable state every vehicle has at most one rental row with a null
\* check_in_date, whatever the interleaving of the scanner-page checkouts
C1_AtMostOneActiveRental ==
    \A v \in Vehicles : Cardinality(ActiveRentals(v)) <= 1

\* C2: a checkout (proceedCheckout or handleRentVehicle) that overlapped no other handler,
\* none of whose calls returned an error, and that was issued for a vehicle that had an active
\* rental has, when it is done, inserted nothing and reported 'Already rented'
C2_GuardedCheckout ==
    \A c \in Clients :
        (/\ pc[c] = "done"
         /\ op[c] \in {"checkout", "rent"}
         /\ ~overlapped[c]
         /\ ~failed[c]
         /\ activeAtStart[c])
            => (~wrote[c] /\ "Already rented" \in toasts[c])

\* C3: the step on which handleCheckIn reports success, having overlapped no other handler
\* and with every call answered without error, leaves the rental it targeted with a
\* check_in_date and the vehicle without any rental row whose check_in_date is null
C3_CheckInMakesAvailable ==
    [][\A c \in Dealers :
        (/\ pc[c] = "ci_vehicle"
         /\ pc'[c] = "hs_vehicle"
         /\ ~overlapped'[c]
         /\ ~failed'[c])
            => /\ rentals'[rental[c]].check_in_date # Null
               /\ ActiveIn(rentals', vehicle[c]) = {}]_vars

\* C4: a checkout or check-in one of whose calls returned an error has, when it is done,
\* shown an Error toast and changed no persisted row
C4_FailureLeavesStateUnchanged ==
    \A c \in Clients :
        (pc[c] = "done" /\ op[c] \in {"checkout", "checkin", "rent"} /\ failed[c])
            => ("Error" \in toasts[c] /\ ~wrote[c])

\* C5: a scanner-page checkout or check-in one of whose data-access calls returned an error
\* has, when it is done, shown an error notification and no 'Success' notification
C5_FailureIsSurfaced ==
    \A c \in Dealers :
        (pc[c] = "done" /\ op[c] \in {"checkout", "checkin"} /\ failed[c])
            => (toasts[c] \cap DestructiveToasts # {} /\ "Success" \notin toasts[c])

\* C6: without an API key, analyzeRequirements on a non-blank requirement text ends with the
\* rule-based recommendations displayed
C6_NoKeyFallsBack ==
    (recPc = "done" /\ HUGGING_FACE_API_KEY = "" /\ trim(userRequirements) # <<>>)
        => recommendations = createRuleBasedRecommendations(userRequirements, availableVehicles)

\* the generated text yields no recommendations: no bracketed span, a span that JSON.parse
\* rejects, or an array with a null element
TextUnparseable(text) ==
    \/ jsonMatch(text) = <<>>
    \/ ~jsonParses(jsonMatch(text))
    \/ \E i \in 1..Len(jsonElements(jsonMatch(text))) :
            jsonElements(jsonMatch(text))[i].tok = "null"

LlmAttemptFailed ==
    \/ llmResult.kind \in {"throw", "not_ok", "bad_body", "null_body"}
    \/ llmResult.kind = "text" /\ TextUnparseable(llmResult.text)

\* C7: when the request throws, answers non-OK, or its text cannot be parsed into
\* recommendations, exactly the rule-based recommendations are displayed, one request was
\* sent, and isLoading is false
C7_FailureKeepsRuleBased ==
    (recPc = "done" /\ LlmAttemptFailed)
        => /\ recommendations =
                createRuleBasedRecommendations(userRequirements, availableVehicles)
           /\ fetchCount = 1
           /\ isLoading = FALSE

C7_Witness ==
    /\ recPc = "done"
    /\ llmResult.kind = "text"
    /\ jsonMatch(llmResult.text) # <<>>
    /\ jsonParses(jsonMatch(llmResult.text))
    /\ \E i, j \in 1..Len(llmResult.text) :
        /\ llmResult.text[i].tok = "null"
        /\ llmResult.text[j].tok = "object"
        /\ llmResult.text[j].vehicleId \in Range(availableVehicles)
    /\ recommendations # <<>>

\* the entries of the array in the generated text whose vehicleId is the id of an input
\* vehicle, in the array's order
ResolvedEntries(text, vehicles) ==
    LET els == SelectSeq(jsonElements(jsonMatch(text)),
                         LAMBDA e : e.tok = "object" /\ e.vehicleId \in Range(vehicles))
    IN  [i \in 1..Len(els) |->
            [vehicle |-> els[i].vehicleId, reasoning |-> <<els[i].reasoning>>,
             matchScore |-> els[i].matchScore]]

ArrayParses(text) == jsonMatch(text) # <<>> /\ jsonParses(jsonMatch(text))

NoNullElement(text) ==
    \A i \in 1..Len(jsonElements(jsonMatch(text))) :
        jsonElements(jsonMatch(text))[i].tok # "null"

\* C8 as stated: after an HTTP-OK response with a text, the LLM-derived entries are displayed
\* iff the text's array parses and an entry resolves; otherwise the rule-based result
C8_LlmUsedIffArrayResolves ==
    (recPc = "done" /\ llmResult.kind = "text")
        => IF ArrayParses(llmResult.text)
              /\ ResolvedEntries(llmResult.text, availableVehicles) # <<>>
           THEN recommendations = ResolvedEntries(llmResult.text, availableVehicles)
           ELSE recommendations =
                    createRuleBasedRecommendations(userRequirements, availableVehicles)

\* C8 amended: the LLM-derived entries are displayed iff the span from the first '[' to the
\* last ']' parses as a JSON array, none of its elements is null, and an entry resolves; then
\* every displayed vehicle is an input vehicle and no rule-based entry is displayed;
\* otherwise exactly the rule-based result is displayed
C8_LlmUsedIffArrayResolvesWithoutNull ==
    (recPc = "done" /\ llmResult.kind = "text")
        => IF /\ ArrayParses(llmResult.text)
              /\ NoNullElement(llmResult.text)
              /\ ResolvedEntries(llmResult.text, availableVehicles) # <<>>
           THEN /\ recommendations = ResolvedEntries(llmResult.text, availableVehicles)
                /\ \A i \in 1..Len(recommendations) :
                        recommendations[i].vehicle \in Range(availableVehicles)
           ELSE recommendations =
                    createRuleBasedRecommendations(userRequirements, availableVehicles)

C8_Witness ==
    /\ recPc = "done"
    /\ llmResult.kind = "text"
    /\ ArrayParses(llmResult.text)
    /\ NoNullElement(llmResult.text)
    /\ Len(ResolvedEntries(llmResult.text, availableVehicles)) = 1
    /\ Len(jsonElements(jsonMatch(llmResult.text))) = 2
    /\ Len(recommendations) = 1
    /\ createRuleBasedRecommendations(userRequirements, availableVehicles) # <<>>

\* C9: createRuleBasedRecommendations returns min(3, number of candidates) entries, each for
\* a distinct input vehicle, with an integer matchScore in 1..10
C9_AtMostThreeInRange ==
    recPc = "scored"
        => /\ Len(recommendations) = Min(3, Len(availableVehicles))
           /\ \A i \in 1..Len(recommendations) :
                /\ recommendations[i].vehicle \in Range(availableVehicles)
                /\ recommendations[i].matchScore \in 1..10
           /\ \A i, j \in 1..Len(recommendations) :
                i # j => recommendations[i].vehicle # recommendations[j].vehicle

C9_Witness ==
    /\ recPc = "scored"
    /\ Len(availableVehicles) = 4
    /\ Len(recommendations) = 3
    /\ userRequirements = Str["I need a heavy excavator for construction at Site A"]
    /\ recommendations[1].matchScore = 10

\* the rules of the scorer as the specification words them; lower is the lowercased text
HasWord(lower, w) == includes(lower, Str[w])

TypeRuleFires(lower, v) ==
    v.type \in {"excavator", "bulldozer", "crane", "truck", "forklift"} /\ HasWord(lower, v.type)

CapacityRuleFires(lower, v) ==
    LET cap == parseInt(Str[v.capacity])
        heavy == HasWord(lower, "heavy") \/ HasWord(lower, "large")
        light == HasWord(lower, "small") \/ HasWord(lower, "light")
    IN  \/ heavy /\ ~cap.isNaN /\ cap.n > 30
        \/ ~heavy /\ light /\ ~cap.isNaN /\ cap.n < 20

SiteRuleFires(lower, v) ==
    v.location \in {"Site A", "Site B", "Site C"}
        /\ includes(lower, toLowerCase(Str[v.location]))

FuelRuleFires(lower, v) ==
    v.fuel_type \in {"electric", "diesel"} /\ HasWord(lower, v.fuel_type)

ConstructionRuleFires(lower, v) ==
    (HasWord(lower, "construction") \/ HasWord(lower, "building"))
        /\ v.type \in {"excavator", "bulldozer", "crane"}

WarehouseRuleFires(lower, v) ==
    (HasWord(lower, "warehouse") \/ HasWord(lower, "storage")) /\ v.type = "forklift"

TransportRuleFires(lower, v) ==
    (HasWord(lower, "transport") \/ HasWord(lower, "hauling")) /\ v.type = "truck"

SumOfDeltas(lower, v) ==
    (IF TypeRuleFires(lower, v) THEN 3 ELSE 0)
    + (IF CapacityRuleFires(lower, v) THEN 2 ELSE 0)
    + (IF SiteRuleFires(lower, v) THEN 2 ELSE 0)
    + (IF FuelRuleFires(lower, v) THEN 1 ELSE 0)
    + (IF ConstructionRuleFires(lower, v) THEN 1 ELSE 0)
    + (IF WarehouseRuleFires(lower, v) THEN 2 ELSE 0)
    + (IF TransportRuleFires(lower, v) THEN 2 ELSE 0)

NoRuleFires(lower, v) ==
    ~(\/ TypeRuleFires(lower, v) \/ CapacityRuleFires(lower, v) \/ SiteRuleFires(lower, v)
      \/ FuelRuleFires(lower, v) \/ ConstructionRuleFires(lower, v)
      \/ WarehouseRuleFires(lower, v) \/ TransportRuleFires(lower, v))

Clamp(lo, hi, x) == IF x < lo THEN lo ELSE IF x > hi THEN hi ELSE x

\* C10: every returned matchScore is 5 plus the deltas of the rules that fire, clamped to
\* 1..10; with no rule firing it is 5 with the generic reasoning; the heavy excavator at
\* Site A of the example scores 10
C10_ScoreIsClampedSumOfDeltas ==
    recPc = "scored"
        => \A i \in 1..Len(recommendations) :
            LET e == recommendations[i]
                v == VehicleRows[e.vehicle]
                lower == toLowerCase(userRequirements)
            IN  /\ e.matchScore = Clamp(1, 10, 5 + SumOfDeltas(lower, v))
                /\ NoRuleFires(lower, v) =>
                        (e.matchScore = 5 /\ e.reasoning = <<GenericReasoning>>)
                /\ (userRequirements = Str["I need a heavy excavator at Site A"]
                        /\ e.vehicle = "v1") => e.matchScore = 10

C10_Witness ==
    /\ recPc = "scored"
    /\ userRequirements = Str["I need a heavy excavator at Site A"]
    /\ Len(availableVehicles) = 2
    /\ availableVehicles[1] = "v2"
    /\ availableVehicles[2] = "v1"
    /\ recommendations[1].vehicle = "v1"
    /\ recommendations[1].matchScore = 10
    /\ recommendations[1].reasoning = <<"Excavator specifically requested. ",
                                        "Heavy capacity equipment needed. ",
                                        "Located at requested site. ">>

\* position of vehicle id in the input list
InputIndex(id) == CHOOSE i \in 1..Len(availableVehicles) : availableVehicles[i] = id

\* the score the rules give to input vehicle id
RuleScore(id) ==
    Clamp(1, 10, 5 + SumOfDeltas(toLowerCase(userRequirements), VehicleRows[id]))

\* C11: the returned entries are in non-increasing matchScore order, entries of equal score
\* keep the order of the input list, and every omitted candidate scores no higher than any
\* returned one (and, at equal score, stands behind it in the input list)
C11_TopThreeStable ==
    recPc = "scored"
        => LET returned == {recommendations[i].vehicle : i \in 1..Len(recommendations)}
               omitted == Range(availableVehicles) \ returned
           IN  /\ \A i, j \in 1..Len(recommendations) :
                    i < j =>
                        /\ recommendations[i].matchScore >= recommendations[j].matchScore
                        /\ recommendations[i].matchScore = recommendations[j].matchScore
                            => InputIndex(recommendations[i].vehicle)
                                    < InputIndex(recommendations[j].vehicle)
               /\ \A o \in omitted : \A i \in 1..Len(recommendations) :
                    /\ RuleScore(o) <= recommendations[i].matchScore
                    /\ RuleScore(o) = recommendations[i].matchScore
                        => InputIndex(recommendations[i].vehicle) < InputIndex(o)

C11_Witness ==
    /\ recPc = "scored"
    /\ userRequirements = Str["I need a heavy excavator at Site A"]
    /\ availableVehicles = <<"v4", "v2", "v1", "v3">>
    /\ recommendations[1].vehicle = "v1"
    /\ recommendations[2].vehicle = "v4"
    /\ recommendations[3].vehicle = "v2"
    /\ recommendations[2].matchScore = recommendations[3].matchScore

\* the rental rows that are active
ActiveRows == {i \in DOMAIN rentals : rentals[i].check_in_date = Null}

\* the rows of the last answer, when it is a list of anomalies
AnswerRows == {queryResult[k] : k \in 1..Len(queryResult)}

\* the anomalies of kind in the last answer that belong to rental i
AnswerFor(i, kind) == {a \in AnswerRows : a.rental_id = i /\ a.anomaly = kind}

AnsweredAll == query.kind = "get_rental_anomalies"

\* C12: an active rental with working_time = 0 has fuel_per_hour 0 whatever its fuel_usage;
\* with idle_time = 0 as well its idle_ratio is 0 and get_rental_anomalies reports neither
\* high_idle_ratio nor excess_fuel_per_hour for it
C12_ZeroTimeRentalsDivideSafely ==
    \A i \in ActiveRows :
        rentals[i].working_time = 0 =>
            /\ fuel_per_hour(rentals[i]) = Rat(0, 1)
            /\ rentals[i].idle_time = 0 =>
                /\ idle_ratio(rentals[i]) = Rat(0, 1)
                /\ AnsweredAll =>
                    /\ AnswerFor(i, "high_idle_ratio") = {}
                    /\ AnswerFor(i, "excess_fuel_per_hour") = {}

C12_Witness ==
    /\ AnsweredAll
    /\ \E i \in ActiveRows :
        /\ rentals[i].working_time = 0
        /\ rentals[i].idle_time = 0
        /\ rentals[i].fuel_usage > 0
        /\ AnswerFor(i, "long_downtime") # {}

\* the types that have a row in the threshold view
ThresholdTypes == {"excavator", "bulldozer", "crane", "truck", "forklift"}

\* the active rentals that the anomaly checks evaluate
EvaluatedRows == {i \in ActiveRows : FleetRows[rentals[i].vehicle_id].type \in ThresholdTypes}

\* whole days from time earlier to time later
WholeDays(later, earlier) ==
    CHOOSE n \in 0..later : n * 24 <= later - earlier /\ later - earlier < (n + 1) * 24

\* C13: get_rental_anomalies reports 'overdue' for an evaluated rental exactly when its
\* expected_return_date is before now, once, with severity 'high' and score 10 times the
\* whole days elapsed since then: 30 for a rental due 3 days ago
C13_OverdueScoresTenPerDay ==
    AnsweredAll =>
        \A i \in EvaluatedRows :
            /\ AnswerFor(i, "overdue") # {} <=> rentals[i].expected_return_date < now
            /\ Cardinality(AnswerFor(i, "overdue")) <= 1
            /\ \A a \in AnswerFor(i, "overdue") :
                /\ a.severity = "high"
                /\ a.score = Rat(10 * WholeDays(now, rentals[i].expected_return_date), 1)
                /\ rentals[i].expected_return_date = now - 3 * 24 => a.score = Rat(30, 1)

C13_Witness ==
    /\ AnsweredAll
    /\ \E i \in EvaluatedRows :
        /\ rentals[i].expected_return_date = now - 72
        /\ \E a \in AnswerFor(i, "overdue") : a.score = Rat(30, 1) /\ a.severity = "high"

\* the idle thresholds in hundredths
IdleThresholdPct ==
    "excavator" :> 70 @@ "bulldozer" :> 60 @@ "crane" :> 65 @@ "truck" :> 50 @@ "forklift" :> 80

\* idle_time / (idle_time + working_time) > k / 1000 times the type's threshold
IdleRatioAbove(i, k) ==
    LET r == rentals[i]
        pct == IdleThresholdPct[FleetRows[r.vehicle_id].type]
    IN  /\ r.idle_time + r.working_time > 0
        /\ r.idle_time * 100 * 1000 > k * pct * (r.idle_time + r.working_time)

\* C14: get_rental_anomalies reports 'high_idle_ratio' for an evaluated rental exactly when
\* its idle ratio exceeds the type's threshold, 'high' exactly when it exceeds 1.2 times the
\* threshold and 'medium' otherwise; an excavator at 80/20 and one at 84/16 are 'medium'
C14_IdleRatioSeverity ==
    AnsweredAll =>
        \A i \in EvaluatedRows :
            /\ AnswerFor(i, "high_idle_ratio") # {} <=> IdleRatioAbove(i, 1000)
            /\ \A a \in AnswerFor(i, "high_idle_ratio") :
                /\ a.severity = IF IdleRatioAbove(i, 1200) THEN "high" ELSE "medium"
                /\ (/\ FleetRows[rentals[i].vehicle_id].type = "excavator"
                    /\ <<rentals[i].idle_time, rentals[i].working_time>>
                            \in {<<80, 20>>, <<84, 16>>})
                        => a.severity = "medium"

C14_Witness ==
    /\ AnsweredAll
    /\ \E i \in EvaluatedRows :
        /\ FleetRows[rentals[i].vehicle_id].type = "excavator"
        /\ rentals[i].idle_time = 84
        /\ rentals[i].working_time = 16
        /\ \E a \in AnswerFor(i, "high_idle_ratio") : a.severity = "medium"

\* the sequence s is in non-increasing order of score(s[k])
ScoresDescend(s, field) ==
    \A j, k \in 1..Len(s) : j < k => ~RatLess(s[j][field], s[k][field])

\* C15: get_vehicle_anomalies(v) answers with exactly the rows of get_rental_anomalies()
\* whose vehicle_id is v, each once; both answers are in descending order of score and then
\* of detection time; an answer without rows is an answer
C15_VehicleAnomaliesAreTheFilteredRows ==
    /\ query.kind = "get_vehicle_anomalies" =>
        /\ AnswerRows = {a \in get_rental_anomalies_rows(rentals, now) :
                            a.vehicle_id = query.target}
        /\ Len(queryResult) = Cardinality(AnswerRows)
    /\ query.kind \in {"get_rental_anomalies", "get_vehicle_anomalies"} =>
        /\ ScoresDescend(queryResult, "score")
        /\ \A j, k \in 1..Len(queryResult) :
            (j < k /\ queryResult[j].score = queryResult[k].score)
                => queryResult[j].detected_at >= queryResult[k].detected_at
    /\ AnsweredAll =>
        /\ AnswerRows = get_rental_anomalies_rows(rentals, now)
        /\ Len(queryResult) = Cardinality(AnswerRows)

C15_Witness ==
    /\ query.kind = "get_vehicle_anomalies"
    /\ query.target = "v1"
    /\ Len(queryResult) >= 2
    /\ RatLess(queryResult[2].score, queryResult[1].score)
    /\ \E a \in get_rental_anomalies_rows(rentals, now) : a.vehicle_id = "v2"

\* C16: every row of get_anomaly_summary is of a vehicle with is_rented = true; its
\* total_anomalies is the number of rental_anomalies rows of the vehicle and the sum of its
\* three severity counts; its total_anomaly_score is the sum of their scores, 0 for none;
\* the rows are in non-increasing order of total_anomaly_score
C16_SummaryCountsAndOrder ==
    query.kind = "get_anomaly_summary" =>
        /\ \A k \in 1..Len(queryResult) :
            LET row == queryResult[k]
                rows == {a \in rental_anomalies(rentals, now) : a.vehicle_id = row.vehicle_id}
            IN  /\ is_rented[row.vehicle_id] = TRUE
                /\ row.total_anomalies = Cardinality(rows)
                /\ row.total_anomalies = row.high_severity_count
                        + row.medium_severity_count + row.low_severity_count
                /\ row.total_anomaly_score = scoreSum(rows)
                /\ rows = {} => row.total_anomaly_score = Rat(0, 1)
        /\ ScoresDescend(queryResult, "total_anomaly_score")

C16_Witness ==
    /\ query.kind = "get_anomaly_summary"
    /\ Len(queryResult) = 3
    /\ queryResult[1].total_anomalies >= 2
    /\ queryResult[2].total_anomalies >= 1
    /\ queryResult[3].total_anomalies = 0
    /\ RatLess(queryResult[2].total_anomaly_score, queryResult[1].total_anomaly_score)
    /\ \E v \in AnomalyVehicles : is_rented[v] = FALSE

\* the role the route guards and the layout read from the loaded profile
LoadedRole == IF profile = Null THEN Null ELSE profiles[profile].role

C18_MissingVehicleIsEmptyResult ==
    [][\A c \in Dealers :
        /\ (pc[c] = "idle" /\ pc'[c] = "hs_vehicle" /\ qrCode'[c] \notin Vehicles) =>
               /\ scanLoading'[c]
               /\ rentals' = rentals
               /\ is_rented' = is_rented
        /\ (pc[c] = "hs_vehicle" /\ pc'[c] # "hs_vehicle" /\ qrCode[c] \notin Vehicles) =>
               /\ "Vehicle not found" \in toasts'[c]
               /\ vehicle'[c] = Null
               /\ rental'[c] = NoRental
               /\ ~scanLoading'[c]
               /\ pc'[c] = "done"
               /\ rentals' = rentals
               /\ is_rented' = is_rented]_vars

C18_Witness ==
    \E c \in Dealers :
        /\ op[c] = "scan"
        /\ pc[c] = "done"
        /\ qrCode[c] \notin Vehicles
        /\ "Vehicle not found" \in toasts[c]
        /\ vehicle[c] = Null
        /\ ~scanLoading[c]
        /\ \E v \in Vehicles : ActiveRentals(v) # {}

\* the vehicle of c's rent request has an active rental that belongs to another user
RentedToOther(c) ==
    \E i \in ActiveRentals(rentTarget[c]) : rentals[i].user_id # c

\* C19: a non-dealer's handleRentVehicle for a vehicle whose active rental belongs to
\* another user, running next to no other handler and with no failed call, is
\* rejected by its guard with 'Already rented' and inserts no rental.
C19_RentOfOthersVehicleRejected ==
    [][\A c \in RenterClients :
        /\ (/\ pc[c] = "rv_guard" /\ pc'[c] # "rv_guard"
            /\ ~overlapped'[c] /\ ~failed'[c]
            /\ RentedToOther(c)) =>
               /\ "Already rented" \in toasts'[c]
               /\ pc'[c] = "rv_refetch"
        /\ (/\ pc[c] = "rv_insert" /\ pc'[c] # "rv_insert"
            /\ ~overlapped'[c] /\ ~failed'[c]
            /\ RentedToOther(c)) =>
               rentals' = rentals]_vars

\* C20: whenever no handler is in progress and no call of any handler so far has
\* failed, every vehicle's is_rented flag is true exactly when the vehicle has a
\* rental with null check_in_date.
C20_FlagAgreesWithActiveRentals ==
    ((\A c \in Clients : ~Busy(c)) /\ ~everFailed) =>
        \A v \in Vehicles : is_rented[v] <=> (ActiveRentals(v) # {})

\* the anomaly rows a query issued in this state returns
AnomalyRowsNow ==
    get_rental_anomalies_rows(rentals, now)
        \cup UNION {get_vehicle_anomalies_rows(rentals, now, v) : v \in DOMAIN FleetRows}

AnomalyQueryKinds == {"get_rental_anomalies", "get_vehicle_anomalies"}

\* C21: every anomaly row a query returns refers to a rental whose check_in_date is
\* null, so a rental that has been checked in is reported by no later query.
C21_AnomaliesOnlyForActiveRentals ==
    /\ [](\A a \in AnomalyRowsNow : rentals[a.rental_id].check_in_date = Null)
    /\ [][(query' # query \/ queryResult' # queryResult) /\ query'.kind \in AnomalyQueryKinds =>
            \A k \in DOMAIN queryResult' :
                rentals'[queryResult'[k].rental_id].check_in_date = Null]_vars

\* the overdue rental has been checked in and a later query returned nothing
C21_Witness ==
    /\ Len(rentals) > 0
    /\ rentals[1].check_in_date # Null
    /\ rentals[1].expected_return_date < now
    /\ query.kind = "get_rental_anomalies"
    /\ queryResult = <<>>
    /\ \A c \in Clients : ~Busy(c)

\* C22: every active rental is evaluated whatever the type of its vehicle: an answer
\* of get_rental_anomalies has an 'overdue' row for every active rental whose
\* expected_return_date is before now, also on a vehicle of type 'other'.
C22_EveryActiveRentalEvaluated ==
    AnsweredAll =>
        \A i \in ActiveRows :
            rentals[i].expected_return_date < now => AnswerFor(i, "overdue") # {}

\* the fuel thresholds per vehicle type, in units per hour
FuelThreshold ==
    "excavator" :> 25 @@ "bulldozer" :> 30 @@ "crane" :> 20 @@ "truck" :> 35 @@ "forklift" :> 8

\* C23: get_rental_anomalies reports 'excess_fuel_per_hour' for an evaluated rental
\* exactly when working_time > 0 and fuel_usage / working_time exceeds the type's
\* threshold; 'high' exactly when it exceeds 1.3 times the threshold, else 'medium';
\* the score is 2 times (actual minus threshold) and positive.
C23_FuelAnomaly ==
    AnsweredAll =>
        \A i \in EvaluatedRows :
            LET r == rentals[i]
                thr == FuelThreshold[FleetRows[r.vehicle_id].type]
            IN  /\ AnswerFor(i, "excess_fuel_per_hour") # {} <=>
                        (r.working_time > 0 /\ r.fuel_usage > thr * r.working_time)
                /\ \A a \in AnswerFor(i, "excess_fuel_per_hour") :
                    /\ a.severity = IF 10 * r.fuel_usage > 13 * thr * r.working_time
                                    THEN "high" ELSE "medium"
                    /\ a.score = Rat(2 * (r.fuel_usage - thr * r.working_time), r.working_time)
                    /\ RatLess(Rat(0, 1), a.score)

\* an excavator at exactly 1.3 times its threshold is reported as 'medium'
C23_Witness ==
    /\ AnsweredAll
    /\ \E i \in EvaluatedRows :
        /\ FleetRows[rentals[i].vehicle_id].type = "excavator"
        /\ rentals[i].fuel_usage = 650
        /\ rentals[i].working_time = 20
        /\ \E a \in AnswerFor(i, "excess_fuel_per_hour") :
                a.severity = "medium" /\ a.score = Rat(15, 1)

\* C24: get_rental_anomalies reports 'long_downtime' for an evaluated rental exactly
\* when downtime > 3; 'high' exactly when downtime > 6, else 'medium'; the score is
\* 3 times (downtime minus 3): nothing at 3, 'medium' with score 9 at 6.
C24_DowntimeAnomaly ==
    AnsweredAll =>
        \A i \in EvaluatedRows :
            LET r == rentals[i] IN
            /\ AnswerFor(i, "long_downtime") # {} <=> r.downtime > 3
            /\ \A a \in AnswerFor(i, "long_downtime") :
                /\ a.severity = IF r.downtime > 6 THEN "high" ELSE "medium"
                /\ a.score = Rat(3 * (r.downtime - 3), 1)
                /\ r.downtime = 6 => a.severity = "medium" /\ a.score = Rat(9, 1)
            /\ r.downtime = 3 => AnswerFor(i, "long_downtime") = {}

C24_Witness ==
    /\ AnsweredAll
    /\ \E i, j \in EvaluatedRows :
        /\ rentals[i].downtime = 6
        /\ \E a \in AnswerFor(i, "long_downtime") : a.severity = "medium" /\ a.score = Rat(9, 1)
        /\ rentals[j].downtime = 3
        /\ AnswerFor(j, "long_downtime") = {}

AnomalyKinds ==
    {"overdue", "high_idle_ratio", "no_work_while_rented", "excess_fuel_per_hour",
     "long_downtime"}

\* C25: get_rental_anomalies reports 'no_work_while_rented' for an evaluated rental
\* exactly when working_time = 0 and check_out_date is more than a day before now,
\* whatever else is reported for it; always 'medium', with score 5 times the whole
\* days since checkout, at least 5; every kind is reported at most once per rental.
C25_NoWorkAnomaly ==
    AnsweredAll =>
        /\ Len(queryResult) = Cardinality(AnswerRows)
        /\ \A i \in EvaluatedRows :
            LET r == rentals[i] IN
            /\ AnswerFor(i, "no_work_while_rented") # {} <=>
                    (r.working_time = 0 /\ r.check_out_date + 24 < now)
            /\ \A a \in AnswerFor(i, "no_work_while_rented") :
                /\ a.severity = "medium"
                /\ a.score = Rat(5 * WholeDays(now, r.check_out_date), 1)
                /\ ~RatLess(a.score, Rat(5, 1))
            /\ \A kind \in AnomalyKinds : Cardinality(AnswerFor(i, kind)) <= 1

\* one rental reported both for no work and as overdue, next to one checked out
\* exactly a day ago that is not reported for no work
C25_Witness ==
    /\ AnsweredAll
    /\ \E i, j \in EvaluatedRows :
        /\ AnswerFor(i, "no_work_while_rented") # {}
        /\ AnswerFor(i, "overdue") # {}
        /\ rentals[j].working_time = 0
        /\ rentals[j].check_out_date = now - 24
        /\ AnswerFor(j, "no_work_while_rented") = {}

\* the sum of total_anomalies over the summary rows S
RECURSIVE TotalAnomalies(_)
TotalAnomalies(S) ==
    IF S = {} THEN 0
    ELSE LET x == CHOOSE y \in S : TRUE IN x.total_anomalies + TotalAnomalies(S \ {x})

\* C26: in every state reached by check-outs and check-ins that have finished, none
\* of them with a failed call, the total_anomalies of the rows get_anomaly_summary
\* returns add up to the number of rows get_rental_anomalies returns.
C26_SummaryAccountsForEveryAnomaly ==
    ((\A c \in Clients : ~Busy(c)) /\ ~everFailed) =>
        TotalAnomalies(rental_anomaly_summary(rentals, is_rented, now))
            = Cardinality(get_rental_anomalies_rows(rentals, now))

\* C27: after a run of analyzeRequirements that displays recommendations, whichever
\* path produced them, the list has at most 3 entries, no vehicle appears twice and
\* every matchScore lies within 1..10.
C27_DisplayedListIsWellFormed ==
    (recPc = "done" /\ Len(recommendations) > 0) =>
        /\ Len(recommendations) <= 3
        /\ \A i, j \in 1..Len(recommendations) :
                i # j => recommendations[i].vehicle # recommendations[j].vehicle
        /\ \A i \in 1..Len(recommendations) :
                recommendations[i].matchScore \in 1..10

(* C28: QR payload round trip.  A scan on the scanner page of the text that
   'Copy QR Code' produces for a vehicle, or of the vehicle's bare identifier,
   whose vehicles query returned no transport error, ends with that vehicle
   loaded on the page. *)
C28_CopiedPayloadResolves ==
    \A c \in Dealers : \A v \in Vehicles :
        (op[c] = "scan" /\ pc[c] = "done" /\ ~scanError[c]
            /\ qrCode[c] \in {v, generateQRCode(v)})
        => (vehicle[c] = v /\ "Vehicle not found" \notin toasts[c])

\* the bare-identifier half of C28 alone
C28_BareIdResolves ==
    \A c \in Dealers : \A v \in Vehicles :
        (op[c] = "scan" /\ pc[c] = "done" /\ ~scanError[c] /\ qrCode[c] = v)
        => vehicle[c] = v

(* C29: a signed-in user whose stored profile role is 'dealer' and who is at
   /scanner is never redirected to '/', whatever the order of the auth-state
   callback, the getSession result, the safety timer and the profile fetch:
   while that user's profile is loaded or its fetch is still in flight, the
   router does not render the redirect to '/'. *)
C29_DealerNeverRedirected ==
    (/\ location = "/scanner"
     /\ user # Null
     /\ profiles[user].role = "dealer"
     /\ (profile = user \/ user \in profileFetches))
    => Routes # NavigateTo("/")

(* C30: while the provider stays mounted, loading eventually becomes false on
   every execution, also when neither getSession nor the auth-state callback
   ever responds, and once it is false no step makes it true again. *)
C30_LoadingEndsAndStaysFalse ==
    /\ <>(~loading)
    /\ [][~loading => ~loading']_vars

\* the safety timer alone has cleared loading: getSession has not answered and the
\* callback has not run
C30_Witness ==
    /\ ~loading
    /\ ~safetyTimerPending
    /\ getSessionPending
    /\ user = Null
    /\ profileFetches = {}

====
